---- MODULE Spec2Model ----
(***************************************************************************)
(* Certificate store (database.py), tool dispatch (mcp_protocol.py) and    *)
(* cache (cache.py) of the PKI MCP server, and the certificate expiry      *)
(* monitor (cert-expiry-monitor.py), as state machines.                    *)
(*                                                                         *)
(* The store runs on an asyncpg pool without an explicit transaction, so   *)
(* every SQL statement commits on its own.  A store call is therefore two  *)
(* steps on its connection: the certificate statement, then the            *)
(* certificate_operations INSERT of _log_operation.  Other connections may *)
(* run between the two.                                                    *)
(***************************************************************************)
EXTENDS Integers, Sequences, FiniteSets, TLC

\* ---------------------------------------------------------------- bounds
MaxClock == 3
MaxCounter == 2
MaxList == 2
MaxCycles == 2
MaxRows == 2

\* ca_providers.py 131: GlobalSign counts a month of validity as 30 days.
DaysPerMonth == 30

\* ------------------------------------------------------- values and inputs
None == "None"
Absent == "Absent"
NoTime == -1

Conns == {1, 2}
CertIds == {"c1", "c2"}
Serials == {"s1"}

CertificateStatus ==
    {"pending", "issued", "active", "revoked", "expired", "suspended"}

\* Status values a caller hands to store_certificate; Absent is a
\* certificate_data without the key.
StoreStatusArgs == {Absent, "pending"}

\* Lookup keys a caller hands to update_certificate_status.
IdArgs == CertIds \cup {None}
SerialArgs == Serials \cup {None}

\* Status values a caller hands to update_certificate_status.
UpdateStatusArgs == {"active", "revoked"}

\* Python truthiness of an optional string argument.
Truthy(x) == x # None /\ x # ""

VARIABLES
    certificates,            \* table certificates, in insertion (id) order
    certificate_operations,  \* table certificate_operations, in insertion order
    now,                     \* the database clock: instant of the last committed
                             \* certificate statement, read by NOW()
    pc,                      \* per connection: position inside a store call
    frame,                   \* per connection: locals of its call in flight
    ret,                     \* outcome of the most recently finished store call
    log_errors,              \* number of "Failed to log operation" records logged
    tools,                   \* MCPServer.tools: registered name -> MCPTool
    envelope,                \* the dict the most recent call_tool returned
    invoked,                 \* the handler the most recent call_tool awaited
    handler_result,          \* what that handler did: its return value or
                             \* the exception it raised
    redis,                   \* RedisCache.redis: None until connect
    backend_up,              \* whether the Redis server answers
    db,                      \* the server's keys: full key -> typed entry
    ttls,                    \* full key -> seconds to live, or NoExpiry
    cache_ret,               \* the most recent cache call and what it returned
    alert_webhook,           \* CertificateMonitor.alert_webhook
    main_pc,                 \* position of main: main, startup, run, loop,
                             \* crashed
    run_pc,                  \* position inside run_check
    in_progress,             \* number of run_check calls entered and not left
    job_due,                 \* the hourly job is due at the next run_pending
    cycle,                   \* number of reports generated; their timestamp
    report,                  \* the report of the current (or last) cycle
    artifacts,               \* reports held by the timestamped files
    latest,                  \* content of cert-status-latest.json
    posts,                   \* webhook POSTs made in the current cycle
    failed,                  \* what failed in the current cycle
    monitor_log,             \* error records logged in the current cycle
    sessions,                \* per adapter: its session (None, open, closed)
    adapter_ret,             \* the most recent adapter call and its outcome
    revoked_remotely,        \* <<adapter, identifier>> the remote API has revoked
    services,                \* main.py's globals and how startup and shutdown went
    inventory_ret,           \* the most recent get_certificate_inventory call
                             \* and the rows (by id) it returned
    registry,                \* ToolRegistry: its tools, metadata and categories
    registry_ret,            \* what the most recent ToolRegistry call returned
    agent_memory,            \* AgentMemory: max_size and the deque
    memory_ret,              \* what the most recent AgentMemory call returned
    stored_since_clear       \* the interactions handed to store_interaction
                             \* since the last clear_memory, in order

storeVars == <<certificates, certificate_operations, now, pc, frame, ret,
               log_errors>>
dispatchVars == <<tools, envelope, invoked, handler_result>>
cacheVars == <<redis, backend_up, db, ttls, cache_ret>>
monitorVars == <<alert_webhook, main_pc, run_pc, in_progress, job_due, cycle,
                 report, artifacts, latest, posts, failed, monitor_log>>
adapterVars == <<sessions, adapter_ret, revoked_remotely, services>>
agentVars == <<registry, registry_ret, agent_memory, memory_ret,
               stored_since_clear>>
vars == <<certificates, certificate_operations, now, pc, frame, ret,
          log_errors, tools, envelope, invoked, handler_result,
          redis, backend_up, db, ttls, cache_ret,
          alert_webhook, main_pc, run_pc, in_progress, job_due, cycle,
          report, artifacts, latest, posts, failed, monitor_log,
          sessions, adapter_ret, revoked_remotely, services, inventory_ret,
          registry, registry_ret, agent_memory, memory_ret, stored_since_clear>>

\* ------------------------------------------------------------------ store
NoFrame == [op |-> "none"]

\* An UPDATE whose WHERE clause is lost: every row matches.
MatchingEveryRow(col, val) == DOMAIN certificates

\* Rows of certificates whose column col equals val (the WHERE clause).
Matching(col, val) ==
    {i \in DOMAIN certificates : certificates[i][col] = val}

\* The lookup key chosen without the final else: a call with neither key
\* goes on to the UPDATE with serial_number as its key.
WhereClauseUnchecked(certificate_id, serial_number) ==
    IF Truthy(certificate_id)
    THEN [col |-> "certificate_id", val |-> certificate_id]
    ELSE [col |-> "serial_number", val |-> serial_number]

\* database.py 226-233: choice of the lookup key.
WhereClause(certificate_id, serial_number) ==
    IF Truthy(certificate_id)
    THEN [col |-> "certificate_id", val |-> certificate_id]
    ELSE IF Truthy(serial_number)
         THEN [col |-> "serial_number", val |-> serial_number]
         ELSE [col |-> "ValueError", val |-> None]

\* database.py 235-249: the SET list applied to one matching row.  The
\* revocation_reason column is written here too; no property reads it and
\* it is left out of the row.
UpdatedRow(row, status, at) ==
    [row EXCEPT
        !.status = status,
        !.revoked_at = IF status = "revoked" THEN at ELSE @]

\* A timestamp text in ISO format for instant t, as isoformat() writes it.
IsoText(t) == [fmt |-> "iso", t |-> t]

\* A text that is no timestamp, such as a Vault lease id.
OtherText == [fmt |-> "other", t |-> NoTime]

\* The timestamp entry of a dict that holds None, and of one without the key.
NoneText == [fmt |-> "none", t |-> NoTime]
MissingText == [fmt |-> "absent", t |-> NoTime]

\* dict.get(key): a certificate_data without the key gives None.
Get(value) == IF value = Absent THEN None ELSE value

\* dict.get(key, default).
GetOr(value, default) == IF value = Absent THEN default ELSE value

\* database.py 448-462: _parse_timestamp.  A falsy input gives None; a text
\* neither fromisoformat nor strptime reads is logged and gives None.
parse_timestamp(timestamp_str) ==
    IF timestamp_str.fmt \in {"absent", "none"} THEN NoTime
    ELSE IF timestamp_str.fmt = "iso" THEN timestamp_str.t
    ELSE NoTime

\* database.py 154-179: the row INSERTed by store_certificate.  revoked_at
\* and created_at are not in the column list: revoked_at stays NULL and
\* created_at takes its default NOW(), the instant at of the statement.
\* The row's id is its place in the table.
InsertedRow(provider, certificate_data, at) ==
    [certificate_id |-> Get(certificate_data.certificate_id),
     serial_number  |-> Get(certificate_data.serial_number),
     ca_provider    |-> provider,
     status         |-> GetOr(certificate_data.status, "issued"),
     issued_at      |-> parse_timestamp(certificate_data.issued_at),
     expires_at     |-> parse_timestamp(certificate_data.expires_at),
     revoked_at     |-> NoTime,
     created_at     |-> at]

\* The audit row written without its certificate_id.
OperationRowUnkeyed(certificate_id, operation_type, status) ==
    [certificate_id |-> None,
     operation_type |-> operation_type,
     status         |-> status]

\* database.py 431-442: the row _log_operation inserts; status stands for
\* the operation_data snapshot.
OperationRow(certificate_id, operation_type, status) ==
    [certificate_id |-> certificate_id,
     operation_type |-> operation_type,
     status         |-> status]

\* certificate_id is UNIQUE (database.py 64); NULLs do not collide.
UniqueViolation(certificate_id) ==
    certificate_id # None /\ Matching("certificate_id", certificate_id) # {}

StoreInit ==
    /\ certificates = <<>>
    /\ certificate_operations = <<>>
    /\ now = 0
    /\ pc = [p \in Conns |-> "idle"]
    /\ frame = [p \in Conns |-> NoFrame]
    /\ ret = "none"
    /\ log_errors = 0

\* database.py 135-181: the INSERT of store_certificate.  A duplicate
\* certificate_id raises and nothing is written, so the table never holds
\* more rows than there are certificate ids.  The statement runs at instant
\* at of the database clock, which never runs backwards.
store_certificate(p, provider, certificate_data, at) ==
    /\ pc[p] = "idle"
    /\ IF UniqueViolation(Get(certificate_data.certificate_id))
       THEN /\ ret' = "UniqueViolation"
            /\ UNCHANGED <<certificates, pc, frame, now>>
       ELSE /\ at \in now .. MaxClock
            /\ now' = at
            /\ certificates' = Append(certificates,
                    InsertedRow(provider, certificate_data, at))
            /\ frame' = [frame EXCEPT ![p] =
                            [op |-> "store_certificate",
                             logged_id |-> Get(certificate_data.certificate_id),
                             status |-> certificate_data.status,
                             changed |-> {Len(certificates) + 1},
                             prior |-> {}]]
            /\ pc' = [pc EXCEPT ![p] = "log"]
            /\ UNCHANGED ret
    /\ UNCHANGED <<certificate_operations, log_errors>>
    /\ UNCHANGED <<dispatchVars, cacheVars, monitorVars, adapterVars, inventory_ret, agentVars>>

\* database.py 224-253 and 271-275: what update_certificate_status does up
\* to its UPDATE statement in the present state of the table: the outcome
\* (ValueError raised, False returned for no row, or on to _log_operation),
\* the rows the statement matches and the table it leaves.  The statement
\* changes every matching row.
UpdateStatement(certificate_id, serial_number, status) ==
    LET w == WhereClause(certificate_id, serial_number) IN
    IF w.col = "ValueError"
    THEN [outcome |-> "ValueError", matched |-> {}, rows |-> certificates]
    ELSE LET matched == Matching(w.col, w.val) IN
         [outcome |-> IF matched = {} THEN "False" ELSE "log",
          matched |-> matched,
          rows    |-> [i \in DOMAIN certificates |->
                          IF i \in matched
                          THEN UpdatedRow(certificates[i], status, now + 1)
                          ELSE certificates[i]]]

\* database.py 205-275: update_certificate_status up to its UPDATE; fetchrow
\* hands back one of the rows the statement changed.
update_certificate_status(p, certificate_id, serial_number, status) ==
    LET u == UpdateStatement(certificate_id, serial_number, status) IN
    /\ pc[p] = "idle"
    /\ IF u.outcome # "log"
       THEN /\ ret' = u.outcome
            /\ UNCHANGED <<certificates, pc, frame, now>>
       ELSE /\ now < MaxClock
            /\ now' = now + 1
            /\ certificates' = u.rows
            /\ \E r \in u.matched :
                  frame' = [frame EXCEPT ![p] =
                               [op |-> "update_certificate_status",
                                logged_id |-> certificates[r].certificate_id,
                                status |-> status,
                                changed |-> u.matched,
                                prior |-> {certificates[i].status : i \in u.matched}]]
            /\ pc' = [pc EXCEPT ![p] = "log"]
            /\ UNCHANGED ret
    /\ UNCHANGED <<certificate_operations, log_errors>>
    /\ UNCHANGED <<dispatchVars, cacheVars, monitorVars, adapterVars, inventory_ret, agentVars>>

\* An audit write that overwrites the newest row instead of adding one.
InsertOperationUpsert(table, row) ==
    IF table = <<>> THEN <<row>> ELSE [table EXCEPT ![Len(table)] = row]

\* database.py 431-442: the only statement on certificate_operations that
\* writes is this INSERT; the table has no UPDATE or DELETE anywhere.
InsertOperation(table, row) == Append(table, row)

\* _log_operation without its except clause: the failed INSERT leaves it as
\* an exception.
LogOperationExitUncaught(ok) == IF ok THEN "return" ELSE "raise"

\* database.py 431-446: how _log_operation is left.  A failed INSERT is
\* caught by the except clause, which logs it and falls off the end.
LogOperationExit(ok) == "return"

\* database.py 183-199 and 253-269 with 419-446: _log_operation on the same
\* connection, then the return.  A failed INSERT is logged and swallowed.
log_operation(p) ==
    /\ pc[p] = "log"
    /\ \E ok \in BOOLEAN :
          /\ certificate_operations' =
                IF ok
                THEN InsertOperation(certificate_operations,
                        OperationRow(frame[p].logged_id,
                            IF frame[p].op = "store_certificate"
                            THEN "issue" ELSE "status_update",
                            frame[p].status))
                ELSE certificate_operations
          /\ log_errors' = IF ok THEN log_errors ELSE log_errors + 1
          /\ ret' = IF LogOperationExit(ok) = "raise" THEN "Exception"
                    ELSE IF frame[p].op = "store_certificate" THEN "id"
                    ELSE "True"
    /\ pc' = [pc EXCEPT ![p] = "idle"]
    /\ frame' = [frame EXCEPT ![p] = NoFrame]
    /\ UNCHANGED <<certificates, now>>
    /\ UNCHANGED <<dispatchVars, cacheVars, monitorVars, adapterVars, inventory_ret, agentVars>>

\* --------------------------------------------------------------- dispatch
ToolNames == {"issue_certificate", "revoke_certificate"}
UnregisteredNames == {"unregistered_tool"}
ParamNames == {"common_name", "ttl"}
Descriptions == {"Issue or revoke a certificate"}

\* Values of a parameter definition's "required" entry; Absent is a
\* definition without the key.
RequiredFlags == {"True", "False", Absent}

\* What an awaited handler can do: return a plain value (possibly None),
\* return an MCPResult of its own, or raise.
HandlerOutcomes ==
    { [kind |-> "value", success |-> TRUE, data |-> "v", error |-> None],
      [kind |-> "value", success |-> TRUE, data |-> None, error |-> None],
      [kind |-> "MCPResult", success |-> TRUE, data |-> "v", error |-> None],
      [kind |-> "MCPResult", success |-> FALSE, data |-> None, error |-> "declared"],
      [kind |-> "raise", success |-> FALSE, data |-> None, error |-> "boom"] }

\* Ordered parameter dicts: sequences of [name, required] without a
\* repeated name.
ParameterDicts ==
    UNION { { q \in [1..n -> [name : ParamNames, required : RequiredFlags]] :
                \A i, j \in 1..n : i # j => q[i].name # q[j].name }
            : n \in 0..Cardinality(ParamNames) }

NoEnvelope == [none |-> TRUE]

\* No handler was awaited.
NoResult == [kind |-> "none"]

\* mcp_protocol.py 46-58: MCPResult.to_dict; data and error are added only
\* when they are not None.
to_dict(success, data, error) ==
    LET base == [success |-> success, timestamp |-> "utcnow"]
        withData == IF data # None THEN base @@ [data |-> data] ELSE base
    IN IF error # None THEN withData @@ [error |-> error] ELSE withData

\* ', '.join(names)
RECURSIVE Join(_)
Join(names) ==
    IF names = <<>> THEN <<>>
    ELSE IF Len(names) = 1 THEN names
    ELSE <<Head(names), ", ">> \o Join(Tail(names))

\* The envelope text when the membership test is skipped and the lookup
\* raises KeyError into the except branch.
NotFoundAsKeyError(tool_name) == <<"Tool execution failed: ", tool_name>>

\* mcp_protocol.py 102: f"Tool '{tool_name}' not found"
NotFoundMessage(tool_name) == <<"Tool '", tool_name, "' ", "not found">>

\* mcp_protocol.py 116: f"Missing required parameters: {', '.join(...)}"
MissingMessage(missing_params) ==
    <<"Missing required parameters: ">> \o Join(missing_params)

\* The except branch answering without the text of the exception.
FailedMessageGeneric(e) == <<"Tool execution failed">>

\* mcp_protocol.py 131: f"Tool execution failed: {str(e)}"
FailedMessage(e) == <<"Tool execution failed: ", e>>

\* The validation loop stopping at the first missing parameter.
RECURSIVE MissingParamsFirstOnly(_, _)
MissingParamsFirstOnly(declared, parameters) ==
    IF declared = <<>> THEN <<>>
    ELSE LET d == Head(declared) IN
         IF d.name \notin parameters /\ d.required # "False"
         THEN <<d.name>>
         ELSE MissingParamsFirstOnly(Tail(declared), parameters)

\* mcp_protocol.py 108-111: the declared parameters, in declaration order,
\* that the input lacks and whose definition does not say required: False.
RECURSIVE MissingParams(_, _)
MissingParams(declared, parameters) ==
    IF declared = <<>> THEN <<>>
    ELSE LET d == Head(declared)
             rest == MissingParams(Tail(declared), parameters)
         IN IF d.name \notin parameters /\ d.required # "False"
            THEN <<d.name>> \o rest
            ELSE rest

\* mcp_protocol.py 26-36: MCPTool.to_dict.  properties is the parameters
\* dict itself and required is list(self.parameters.keys()): every declared
\* name, whatever its definition says.
tool_to_dict(tool) ==
    [name        |-> tool.name,
     description |-> tool.description,
     inputSchema |->
        [type       |-> "object",
         properties |-> tool.parameters,
         required   |-> [i \in DOMAIN tool.parameters |-> tool.parameters[i].name]]]

DispatchInit ==
    /\ tools = [n \in {} |-> <<>>]
    /\ envelope = NoEnvelope
    /\ invoked = None
    /\ handler_result = NoResult

\* mcp_protocol.py 69-72
register_tool(name, description, parameters) ==
    /\ tools' = [n \in DOMAIN tools \cup {name} |->
                    IF n = name
                    THEN [name |-> name, description |-> description,
                          parameters |-> parameters]
                    ELSE tools[n]]
    /\ UNCHANGED <<envelope, invoked, handler_result>>
    /\ UNCHANGED <<storeVars, cacheVars, monitorVars, adapterVars, inventory_ret, agentVars>>

\* mcp_protocol.py 90-94: list_tools, one to_dict per value of self.tools;
\* the entries are kept under the key of their tool.
list_tools == [n \in DOMAIN tools |-> tool_to_dict(tools[n])]

\* mcp_protocol.py 96-132; parameters is the set of keys of the input dict.
call_tool(tool_name, parameters) ==
    /\ IF tool_name \notin DOMAIN tools
       THEN /\ envelope' = to_dict(FALSE, None, NotFoundMessage(tool_name))
            /\ invoked' = None
            /\ handler_result' = NoResult
       ELSE LET missing_params ==
                    MissingParams(tools[tool_name].parameters, parameters)
            IN IF missing_params # <<>>
               THEN /\ envelope' = to_dict(FALSE, None, MissingMessage(missing_params))
                    /\ invoked' = None
                    /\ handler_result' = NoResult
               ELSE /\ invoked' = tool_name
                    /\ \E result \in HandlerOutcomes :
                          /\ handler_result' = result
                          /\ envelope' =
                                IF result.kind = "raise"
                                THEN to_dict(FALSE, None, FailedMessage(result.error))
                                ELSE IF result.kind = "MCPResult"
                                THEN to_dict(result.success, result.data,
                                        IF result.error = None THEN None
                                        ELSE <<result.error>>)
                                ELSE to_dict(TRUE, result.data, None)
    /\ UNCHANGED tools
    /\ UNCHANGED <<storeVars, cacheVars, monitorVars, adapterVars, inventory_ret, agentVars>>

\* ------------------------------------------------------------------ cache
\* RedisCache (cache.py).  Python values are records tagged by their type;
\* the backend stores text.  disconnect and health_check are outside the
\* operations modelled here.
Keys == {"k"}
Fields == {"f"}
Patterns == {"*", "absent*"}
TTLArgs == {0, 60}

PyNone == [py |-> "None"]
PyBool(b) == [py |-> "bool", bool |-> b]
PyInt(n) == [py |-> "int", int |-> n]
PyStr(text) == [py |-> "str", text |-> text]
PyList(items) == [py |-> "list", items |-> items]
PyDict(entries) == [py |-> "dict", entries |-> entries]
Raise(error) == [py |-> "raise", error |-> error]

\* Integers a counter key can hold in the model.
CounterRange == (0 - MaxCounter)..MaxCounter

\* Values a caller hands to set, set_hash, add_to_set and push_to_list: a
\* plain string, a string whose text is a JSON number, and that number.
CacheValues == {PyStr("v"), PyStr("1"), PyInt(1)}

\* json.dumps of a value that is not a str.
Dumps(value) == ToString(value.int)

\* json.loads of a stored text: the number it spells, else JSONDecodeError.
Loads(text) ==
    IF \E n \in CounterRange : ToString(n) = text
    THEN PyInt(CHOOSE n \in CounterRange : ToString(n) = text)
    ELSE Raise("JSONDecodeError")

\* cache.py 90-91 (and 175-176, 239-240, ...): a str goes in as it is, any
\* other value as its JSON text.
Serialize(value) == IF value.py = "str" THEN value.text ELSE Dumps(value)

\* json.loads without the except json.JSONDecodeError clause around it.
DeserializeStrict(text) == Loads(text)

\* cache.py 70-73 (and 194-197, 212-215, ...): the decoded value, or the text
\* itself when it is not JSON.
Deserialize(text) ==
    LET decoded == Loads(text) IN
    IF decoded.py = "raise" THEN PyStr(text) ELSE decoded

\* cache.py 56-58
make_key(key) == <<"pki_mcp", ":", key>>

FullKeys == {make_key(key) : key \in Keys}

NoKey == [type |-> "none"]
NoExpiry == -1

\* Every ordering of a finite set: the order in which a Python set iterates.
Orderings(S) ==
    {s \in [1..Cardinality(S) -> S] : \A i, j \in DOMAIN s : i # j => s[i] # s[j]}

\* An operation's try block left to raise: no except clause.
TryExceptReraise(body, fallback) == body

\* The try/except Exception around the body of every cache operation: what
\* the body returned, or the except clause's return value when it raised.
TryExcept(body, fallback) == IF body.py = "raise" THEN fallback ELSE body

\* A command sent through self.redis: AttributeError on the None of a cache
\* that was never connected, ConnectionError while the backend is down, else
\* the backend's answer.
Command(answer) ==
    IF redis = None THEN Raise("AttributeError")
    ELSE IF ~backend_up THEN Raise("ConnectionError")
    ELSE answer

\* WRONGTYPE for a command on a key that holds another type.
Typed(full_key, type, answer) ==
    IF db[full_key].type \in {"none", type} THEN answer ELSE Raise("WRONGTYPE")

\* The backend after a write to full_key; an emptied hash, set or list is
\* removed, and a removed key loses its expiry.
Written(full_key, entry) ==
    LET stored == IF \/ (entry.type = "hash" /\ DOMAIN entry.fields = {})
                     \/ (entry.type = "set" /\ entry.members = {})
                     \/ (entry.type = "list" /\ entry.items = <<>>)
                  THEN NoKey ELSE entry
    IN [db |-> [db EXCEPT ![full_key] = stored],
        ttls |-> IF stored = NoKey THEN [ttls EXCEPT ![full_key] = NoExpiry] ELSE ttls]

Untouched == [db |-> db, ttls |-> ttls]

CacheInit ==
    /\ redis = None
    /\ backend_up = TRUE
    /\ db = [k \in FullKeys |-> NoKey]
    /\ ttls = [k \in FullKeys |-> NoExpiry]
    /\ cache_ret = [op |-> "none", failed |-> FALSE, cause |-> None,
                    value |-> PyNone]

\* One call of a cache operation: the body is run through self.redis inside
\* the operation's try/except; the backend changes only if the body ran.
CacheCall(op, body, fallback, after) ==
    LET result == Command(body) IN
    /\ cache_ret' = [op |-> op,
                     failed |-> (result.py = "raise"),
                     cause |-> IF result.py = "raise" THEN result.error ELSE None,
                     value |-> TryExcept(result, fallback)]
    /\ IF result.py = "raise"
       THEN UNCHANGED <<db, ttls>>
       ELSE db' = after.db /\ ttls' = after.ttls
    /\ UNCHANGED <<redis, backend_up>>
    /\ UNCHANGED <<storeVars, dispatchVars, monitorVars, adapterVars, inventory_ret, agentVars>>

\* cache.py 24-41: the client is created lazily and assigned before the ping;
\* a failed ping is re-raised.
CacheConnect ==
    /\ redis' = "client"
    /\ cache_ret' = [op |-> "connect",
                     failed |-> ~backend_up,
                     cause |-> IF backend_up THEN None ELSE "ConnectionError",
                     value |-> IF backend_up THEN PyNone ELSE Raise("ConnectionError")]
    /\ UNCHANGED <<backend_up, db, ttls>>

connect ==
    /\ CacheConnect
    /\ UNCHANGED <<storeVars, dispatchVars, monitorVars, adapterVars, inventory_ret, agentVars>>

\* The backend goes down or comes back; its contents survive.
outage ==
    /\ backend_up' = ~backend_up
    /\ UNCHANGED <<redis, db, ttls, cache_ret>>
    /\ UNCHANGED <<storeVars, dispatchVars, monitorVars, adapterVars, inventory_ret, agentVars>>

\* A key's time to live runs out.
key_expires(key) ==
    /\ ttls[make_key(key)] # NoExpiry
    /\ db' = [db EXCEPT ![make_key(key)] = NoKey]
    /\ ttls' = [ttls EXCEPT ![make_key(key)] = NoExpiry]
    /\ UNCHANGED <<redis, backend_up, cache_ret>>
    /\ UNCHANGED <<storeVars, dispatchVars, monitorVars, adapterVars, inventory_ret, agentVars>>

\* cache.py 60-77
get(key) ==
    LET full_key == make_key(key)
        value == Typed(full_key, "string",
                    IF db[full_key] = NoKey THEN PyNone
                    ELSE Deserialize(db[full_key].text))
    IN CacheCall("get", value, PyNone, Untouched)

\* cache.py 79-102; SET drops an expiry the key had, SETEX sets one.
set(key, value, ttl) ==
    LET full_key == make_key(key)
        entry == [type |-> "string", text |-> Serialize(value)]
    IN CacheCall("set", PyBool(TRUE), PyBool(FALSE),
          [db |-> [db EXCEPT ![full_key] = entry],
           ttls |-> [ttls EXCEPT ![full_key] = IF ttl # 0 THEN ttl ELSE NoExpiry]])

\* cache.py 104-113
delete(key) ==
    LET full_key == make_key(key)
        result == IF db[full_key] = NoKey THEN 0 ELSE 1
    IN CacheCall("delete", PyBool(result > 0), PyBool(FALSE),
          [db |-> [db EXCEPT ![full_key] = NoKey],
           ttls |-> [ttls EXCEPT ![full_key] = NoExpiry]])

\* cache.py 115-124
exists(key) ==
    LET result == IF db[make_key(key)] = NoKey THEN 0 ELSE 1
    IN CacheCall("exists", PyBool(result > 0), PyBool(FALSE), Untouched)

\* cache.py 126-135
expire(key, ttl) ==
    LET full_key == make_key(key)
        result == db[full_key] # NoKey
    IN CacheCall("expire", PyBool(result), PyBool(FALSE),
          [db |-> db,
           ttls |-> IF result THEN [ttls EXCEPT ![full_key] = ttl] ELSE ttls])

\* cache.py 137-146; TTL answers -2 for no key and -1 for no expiry.
get_ttl(key) ==
    LET full_key == make_key(key)
        ttl == IF db[full_key] = NoKey THEN -2 ELSE ttls[full_key]
    IN CacheCall("get_ttl", IF ttl > 0 THEN PyInt(ttl) ELSE PyNone, PyNone,
                 Untouched)

\* INCRBY / DECRBY: a missing key counts from 0; text that is not an integer
\* is an error.
Counter(full_key, amount) ==
    IF db[full_key].type = "none" THEN PyInt(amount)
    ELSE IF db[full_key].type # "string" THEN Raise("WRONGTYPE")
    ELSE LET held == Loads(db[full_key].text) IN
         IF held.py = "raise" THEN Raise("not an integer")
         ELSE PyInt(held.int + amount)

Counted(full_key, result) ==
    IF result.py = "raise" THEN Untouched
    ELSE [db |-> [db EXCEPT ![full_key] =
                     [type |-> "string", text |-> ToString(result.int)]],
          ttls |-> ttls]

\* cache.py 148-157
increment(key, amount) ==
    LET full_key == make_key(key)
        result == Counter(full_key, amount)
    IN /\ result.py = "int" => result.int \in CounterRange
       /\ CacheCall("increment", result, PyInt(0), Counted(full_key, result))

\* cache.py 159-168
decrement(key, amount) ==
    LET full_key == make_key(key)
        result == Counter(full_key, 0 - amount)
    IN /\ result.py = "int" => result.int \in CounterRange
       /\ CacheCall("decrement", result, PyInt(0), Counted(full_key, result))

HashOf(full_key) ==
    IF db[full_key].type = "hash" THEN db[full_key].fields ELSE <<>>

SetOf(full_key) ==
    IF db[full_key].type = "set" THEN db[full_key].members ELSE {}

ListOf(full_key) ==
    IF db[full_key].type = "list" THEN db[full_key].items ELSE <<>>

\* cache.py 170-183; HSET answers the number of fields it added.
set_hash(key, field, value) ==
    LET full_key == make_key(key)
        fields == HashOf(full_key)
        result == IF field \in DOMAIN fields THEN 0 ELSE 1
    IN CacheCall("set_hash", Typed(full_key, "hash", PyInt(result)), PyBool(FALSE),
          Written(full_key,
             [type |-> "hash",
              fields |-> [f \in DOMAIN fields \cup {field} |->
                             IF f = field THEN Serialize(value) ELSE fields[f]]]))

\* cache.py 185-201
get_hash(key, field) ==
    LET full_key == make_key(key)
        fields == HashOf(full_key)
    IN CacheCall("get_hash",
          Typed(full_key, "hash",
             IF field \in DOMAIN fields THEN Deserialize(fields[field]) ELSE PyNone),
          PyNone, Untouched)

\* cache.py 203-221
get_all_hash(key) ==
    LET full_key == make_key(key)
        result == HashOf(full_key)
    IN CacheCall("get_all_hash",
          Typed(full_key, "hash",
             PyDict([field \in DOMAIN result |-> Deserialize(result[field])])),
          PyDict(<<>>), Untouched)

\* cache.py 223-232
delete_hash(key, field) ==
    LET full_key == make_key(key)
        fields == HashOf(full_key)
        result == IF field \in DOMAIN fields THEN 1 ELSE 0
    IN CacheCall("delete_hash", Typed(full_key, "hash", PyBool(result > 0)),
          PyBool(FALSE),
          IF result = 0 THEN Untouched
          ELSE Written(full_key,
                  [type |-> "hash",
                   fields |-> [f \in DOMAIN fields \ {field} |-> fields[f]]]))

\* cache.py 234-247
add_to_set(key, value) ==
    LET full_key == make_key(key)
        members == SetOf(full_key)
        result == IF Serialize(value) \in members THEN 0 ELSE 1
    IN CacheCall("add_to_set", Typed(full_key, "set", PyBool(result > 0)),
          PyBool(FALSE),
          Written(full_key,
             [type |-> "set", members |-> members \cup {Serialize(value)}]))

\* cache.py 249-262
remove_from_set(key, value) ==
    LET full_key == make_key(key)
        members == SetOf(full_key)
        result == IF Serialize(value) \in members THEN 1 ELSE 0
    IN CacheCall("remove_from_set", Typed(full_key, "set", PyBool(result > 0)),
          PyBool(FALSE),
          IF result = 0 THEN Untouched
          ELSE Written(full_key,
                  [type |-> "set", members |-> members \ {Serialize(value)}]))

\* cache.py 264-282; the members come in the set's iteration order.
get_set_members(key) ==
    LET full_key == make_key(key) IN
    \E members \in Orderings(SetOf(full_key)) :
       CacheCall("get_set_members",
          Typed(full_key, "set",
             PyList([i \in DOMAIN members |-> Deserialize(members[i])])),
          PyList(<<>>), Untouched)

\* cache.py 284-297
is_set_member(key, value) ==
    LET full_key == make_key(key)
        result == Serialize(value) \in SetOf(full_key)
    IN CacheCall("is_set_member", Typed(full_key, "set", PyBool(result)),
          PyBool(FALSE), Untouched)

\* cache.py 299-316; LPUSH / RPUSH answer the new length.
push_to_list(key, value, left) ==
    LET full_key == make_key(key)
        items == IF left THEN <<Serialize(value)>> \o ListOf(full_key)
                 ELSE Append(ListOf(full_key), Serialize(value))
        result == Len(items)
    IN /\ Len(ListOf(full_key)) < MaxList
       /\ CacheCall("push_to_list", Typed(full_key, "list", PyBool(result > 0)),
             PyBool(FALSE), Written(full_key, [type |-> "list", items |-> items]))

\* cache.py 318-338
pop_from_list(key, left) ==
    LET full_key == make_key(key)
        items == ListOf(full_key)
    IN CacheCall("pop_from_list",
          Typed(full_key, "list",
             IF items = <<>> THEN PyNone
             ELSE Deserialize(IF left THEN Head(items) ELSE items[Len(items)])),
          PyNone,
          IF items = <<>> THEN Untouched
          ELSE Written(full_key,
                  [type |-> "list",
                   items |-> IF left THEN Tail(items)
                             ELSE SubSeq(items, 1, Len(items) - 1)]))

\* cache.py 340-349
get_list_length(key) ==
    LET full_key == make_key(key) IN
    CacheCall("get_list_length",
       Typed(full_key, "list", PyInt(Len(ListOf(full_key)))), PyInt(0), Untouched)

\* cache.py 351-369, with the default range 0..-1: the whole list.
get_list_range(key) ==
    LET full_key == make_key(key)
        values == ListOf(full_key)
    IN CacheCall("get_list_range",
          Typed(full_key, "list",
             PyList([i \in DOMAIN values |-> Deserialize(values[i])])),
          PyList(<<>>), Untouched)

\* cache.py 371-385; "*" matches every key of the prefix, "absent*" none.
clear_pattern(pattern) ==
    LET keys == IF pattern = "*" THEN {k \in FullKeys : db[k] # NoKey} ELSE {}
    IN CacheCall("clear_pattern", PyInt(Cardinality(keys)), PyInt(0),
          [db |-> [k \in FullKeys |-> IF k \in keys THEN NoKey ELSE db[k]],
           ttls |-> [k \in FullKeys |-> IF k \in keys THEN NoExpiry ELSE ttls[k]]])

\* cache.py 387-409; the returned dict is stood for by its keys.
get_stats ==
    CacheCall("get_stats",
       PyDict(<<"used_memory", "used_memory_human", "used_memory_peak",
                "used_memory_peak_human", "connected_clients",
                "total_commands_processed", "keyspace_hits", "keyspace_misses",
                "hit_rate">>),
       PyDict(<<>>), Untouched)

\* ---------------------------------------------------------------- monitor
\* CertificateMonitor and main (cert-expiry-monitor.py).  main is one thread:
\* it calls run_check itself, at startup and from schedule.run_pending.
warning_days == 30
critical_days == 7

\* PKI mounts of the Vault server, in the order sys/mounts lists them.
PkiMounts == <<"pki-root", "pki-int">>

MountNames == {PkiMounts[k] : k \in DOMAIN PkiMounts}

\* ALERT_WEBHOOK_URL: not set, set to the empty string, or a URL.
WebhookSettings == {None, "", "https://hooks.example"}

\* Answers to GET sys/health: the status code, or no answer at all.
HealthAnswers == {"200", "503", "error"}

\* How the two writes of save_report end: both done, the first fails, or
\* the first is done and the second fails.
SaveOutcomes == {"saved", "first_failed", "second_failed"}

NoReport == [timestamp |-> 0]

\* The None check_ca_expiry returns for a mount that did not answer.
NoCaInfo == [mount |-> None]

\* cert-expiry-monitor.py 117-128: the report before the scan.
NewReport(timestamp, vault_health) ==
    [timestamp       |-> timestamp,
     vault_health    |-> vault_health,
     ca_certificates |-> <<>>,
     alerts          |-> <<>>,
     statistics      |-> [total_cas |-> 0, healthy_cas |-> 0,
                          warning_cas |-> 0, critical_cas |-> 0]]

\* cert-expiry-monitor.py 131-135
VaultAlert ==
    [level |-> "critical", message |-> "Vault is not accessible"]

\* cert-expiry-monitor.py 150-156 and 159-165; the message text is stood for
\* by the mount and the number of days it is formatted from.
CaAlert(level, mount, days_until_expiry) ==
    [level |-> level, message |-> "CA expires in days", mount |-> mount,
     days_until_expiry |-> days_until_expiry]

\* The thresholds compared with < : a CA on the boundary day falls into the
\* milder class.
LevelOfStrict(days_until_expiry) ==
    IF days_until_expiry < critical_days THEN "critical"
    ELSE IF days_until_expiry < warning_days THEN "warning"
    ELSE "healthy"

\* cert-expiry-monitor.py 148, 157, 166: the class of a CA.
LevelOf(days_until_expiry) ==
    IF days_until_expiry <= critical_days THEN "critical"
    ELSE IF days_until_expiry <= warning_days THEN "warning"
    ELSE "healthy"

\* cert-expiry-monitor.py 143-167: one pass of the loop body for a mount
\* whose check_ca_expiry returned ca_info (None: the mount is passed over).
Classified(rep, mount, ca_info) ==
    IF ca_info = NoCaInfo THEN rep
    ELSE LET days_until_expiry == ca_info.days_until_expiry
             level == LevelOf(days_until_expiry)
             counter == IF level = "critical" THEN "critical_cas"
                        ELSE IF level = "warning" THEN "warning_cas"
                        ELSE "healthy_cas"
         IN [rep EXCEPT
               !.ca_certificates = Append(@, ca_info),
               !.statistics[counter] = @ + 1,
               !.alerts = IF level = "healthy" THEN @
                          ELSE Append(@, CaAlert(level, mount, days_until_expiry))]

\* cert-expiry-monitor.py 141-167: the loop over the mounts.
RECURSIVE Scan(_, _, _)
Scan(rep, pki_mounts, ca_infos) ==
    IF pki_mounts = <<>> THEN rep
    ELSE Scan(Classified(rep, Head(pki_mounts), ca_infos[Head(pki_mounts)]),
              Tail(pki_mounts), ca_infos)

\* cert-expiry-monitor.py 115-169, given what the three helpers returned.
GenerateReport(timestamp, vault_health, pki_mounts, ca_infos) ==
    IF ~vault_health
    THEN [NewReport(timestamp, vault_health) EXCEPT !.alerts = <<VaultAlert>>]
    ELSE Scan([NewReport(timestamp, vault_health) EXCEPT
                  !.statistics.total_cas = Len(pki_mounts)],
              pki_mounts, ca_infos)

\* cert-expiry-monitor.py 83-102: the CA certificate is fetched but not
\* parsed; a fixed record is returned for every mount that answers.
check_ca_expiry(mount, answered) ==
    IF answered
    THEN [mount |-> mount, expires_at |-> "2025-12-31T23:59:59Z",
          days_until_expiry |-> 350, status |-> "healthy"]
    ELSE NoCaInfo

\* An except clause that lets the exception go on.
ExceptReraised(outcome) == outcome

\* except Exception as e: logging.error(...) (cert-expiry-monitor.py 188-189,
\* 210-211, 231-232): the exception ends here.
ExceptLogged(outcome) == IF outcome = "raise" THEN "logged" ELSE outcome

\* send_alerts posting whatever the report holds.
ShouldPostAlways(webhook, rep) == TRUE

\* cert-expiry-monitor.py 193-200: whether send_alerts goes on to the POST.
ShouldPost(webhook, rep) ==
    /\ Truthy(webhook)
    /\ rep.alerts # <<>>
    /\ \E k \in DOMAIN rep.alerts : rep.alerts[k].level \in {"critical", "warning"}

\* run_pending handing the job to a thread of its own.
RunPendingThreaded == main_pc \in {"run", "loop"}

\* cert-expiry-monitor.py 246-249: run_pending is reached only between two
\* runs, from the loop of the one thread.
RunPendingReached == main_pc = "loop"

\* main has not yet built its CertificateMonitor.
MonitorInit ==
    /\ alert_webhook = None
    /\ main_pc = "main"
    /\ run_pc = "idle"
    /\ in_progress = 0
    /\ job_due = FALSE
    /\ cycle = 0
    /\ report = NoReport
    /\ artifacts = {}
    /\ latest = NoReport
    /\ posts = 0
    /\ failed = {}
    /\ monitor_log = {}

\* cert-expiry-monitor.py 213-215: run_check is entered.
EnterRunCheck ==
    /\ cycle < MaxCycles
    /\ in_progress' = in_progress + 1
    /\ run_pc' = "generate"
    /\ main_pc' = "run"
    /\ posts' = 0
    /\ failed' = {}
    /\ monitor_log' = {}
    /\ UNCHANGED <<alert_webhook, cycle, report, artifacts, latest>>

\* cert-expiry-monitor.py 231-232 and 246-249: run_check is left.  An
\* exception that got past its except clause leaves main through the loop,
\* whose only handler is for KeyboardInterrupt.
LeaveRunCheck(outcome) ==
    LET left == ExceptLogged(outcome) IN
    /\ in_progress' = in_progress - 1
    /\ run_pc' = "idle"
    /\ main_pc' = IF left = "raise" THEN "crashed" ELSE "loop"
    /\ monitor_log' = IF left = "logged"
                      THEN monitor_log \cup {"Certificate check failed"}
                      ELSE monitor_log

\* cert-expiry-monitor.py 236 with 30-43: main builds the monitor, which reads
\* ALERT_WEBHOOK_URL from the environment.
CertificateMonitor(webhook) ==
    /\ main_pc = "main"
    /\ main_pc' = "startup"
    /\ alert_webhook' = webhook
    /\ UNCHANGED <<run_pc, in_progress, job_due, cycle, report, artifacts,
                   latest, posts, failed, monitor_log>>
    /\ UNCHANGED <<storeVars, dispatchVars, cacheVars, adapterVars, inventory_ret, agentVars>>

\* cert-expiry-monitor.py 242: the run at startup.
startup_run ==
    /\ main_pc = "startup"
    /\ EnterRunCheck
    /\ UNCHANGED job_due
    /\ UNCHANGED <<storeVars, dispatchVars, cacheVars, adapterVars, inventory_ret, agentVars>>

\* An hour of the schedule has passed: the job is due.
tick ==
    /\ main_pc \in {"run", "loop"}
    /\ ~job_due
    /\ job_due' = TRUE
    /\ UNCHANGED <<alert_webhook, main_pc, run_pc, in_progress, cycle, report,
                   artifacts, latest, posts, failed, monitor_log>>
    /\ UNCHANGED <<storeVars, dispatchVars, cacheVars, adapterVars, inventory_ret, agentVars>>

\* cert-expiry-monitor.py 239 and 248: run_pending runs the job when due.
run_pending ==
    /\ RunPendingReached
    /\ job_due
    /\ job_due' = FALSE
    /\ EnterRunCheck
    /\ UNCHANGED <<storeVars, dispatchVars, cacheVars, adapterVars, inventory_ret, agentVars>>

\* cert-expiry-monitor.py 218 with 54-102 and 115-169: generate_report over
\* what the provider answers in this cycle.
generate_report(health, mounts_answered, cas_answered) ==
    /\ run_pc = "generate"
    /\ LET vault_health == (health = "200")
           pki_mounts == IF mounts_answered THEN PkiMounts ELSE <<>>
           ca_infos == [mount \in MountNames |->
                           check_ca_expiry(mount, mount \in cas_answered)]
           unanswered == {pki_mounts[k] : k \in DOMAIN pki_mounts} \ cas_answered
       IN /\ report' = GenerateReport(cycle + 1, vault_health, pki_mounts, ca_infos)
          /\ failed' = (IF health = "error" THEN {"health"} ELSE {})
                       \cup (IF health = "503" THEN {"unhealthy"} ELSE {})
                       \cup (IF vault_health /\ ~mounts_answered THEN {"mounts"} ELSE {})
                       \cup (IF vault_health /\ unanswered # {} THEN {"ca"} ELSE {})
          /\ monitor_log' =
                (IF health = "error" THEN {"Vault health check failed"} ELSE {})
                \cup (IF vault_health /\ ~mounts_answered
                      THEN {"Failed to get PKI mounts"} ELSE {})
                \cup (IF vault_health /\ unanswered # {}
                      THEN {"Failed to check CA expiry"} ELSE {})
    /\ cycle' = cycle + 1
    /\ run_pc' = "save"
    /\ UNCHANGED <<alert_webhook, main_pc, in_progress, job_due, artifacts,
                   latest, posts>>
    /\ UNCHANGED <<storeVars, dispatchVars, cacheVars, adapterVars, inventory_ret, agentVars>>

\* cert-expiry-monitor.py 171-189 with 219: save_report.  The timestamped
\* file is written first, then the latest one; open(..., 'w') empties the
\* latest file before the failing write.
save_report(written) ==
    /\ run_pc = "save"
    /\ artifacts' = IF written = "first_failed" THEN artifacts
                    ELSE artifacts \cup {report}
    /\ \E truncated \in BOOLEAN :
          latest' = IF written = "saved" THEN report
                    ELSE IF written = "second_failed" /\ truncated THEN NoReport
                    ELSE latest
    /\ LET outcome == ExceptLogged(IF written = "saved" THEN "return" ELSE "raise")
       IN /\ failed' = IF written = "saved" THEN failed ELSE failed \cup {"save"}
          /\ IF outcome = "raise"
             THEN LeaveRunCheck("raise")
             ELSE /\ run_pc' = "send"
                  /\ monitor_log' = IF outcome = "logged"
                                    THEN monitor_log \cup {"Failed to save report"}
                                    ELSE monitor_log
                  /\ UNCHANGED <<main_pc, in_progress>>
    /\ UNCHANGED <<alert_webhook, job_due, cycle, report, posts>>
    /\ UNCHANGED <<storeVars, dispatchVars, cacheVars, adapterVars, inventory_ret, agentVars>>

\* cert-expiry-monitor.py 191-211 with 220-232: send_alerts, then the summary
\* line and the return of run_check.
send_alerts(delivered) ==
    /\ run_pc = "send"
    /\ IF ~ShouldPost(alert_webhook, report)
       THEN /\ delivered
            /\ LeaveRunCheck("return")
            /\ UNCHANGED <<posts, failed>>
       ELSE LET outcome == ExceptLogged(IF delivered THEN "return" ELSE "raise")
            IN /\ posts' = posts + 1
               /\ failed' = IF delivered THEN failed ELSE failed \cup {"post"}
               /\ IF outcome = "raise"
                  THEN LeaveRunCheck("raise")
                  ELSE /\ in_progress' = in_progress - 1
                       /\ run_pc' = "idle"
                       /\ main_pc' = "loop"
                       /\ monitor_log' = IF outcome = "logged"
                                         THEN monitor_log \cup {"Failed to send alerts"}
                                         ELSE monitor_log
    /\ UNCHANGED <<alert_webhook, job_due, cycle, report, artifacts, latest>>
    /\ UNCHANGED <<storeVars, dispatchVars, cacheVars, adapterVars, inventory_ret, agentVars>>

\* cert-expiry-monitor.py 57, 66, 86 and 206: session.get and requests.post
\* are called without a timeout, so a provider (or webhook) that takes the
\* connection and never answers leaves the call, and the one thread, waiting.
request_unanswered ==
    /\ \/ run_pc = "generate"
       \/ run_pc = "send" /\ ShouldPost(alert_webhook, report)
    /\ run_pc' = "waiting"
    /\ UNCHANGED <<alert_webhook, main_pc, in_progress, job_due, cycle, report,
                   artifacts, latest, posts, failed, monitor_log>>
    /\ UNCHANGED <<storeVars, dispatchVars, cacheVars, adapterVars, inventory_ret, agentVars>>

\* generate_report's scan applied to mounts whose check_ca_expiry results are
\* handed in: the classification for any number of days.
scan_mounts(ca_infos) ==
    /\ main_pc = "main"
    /\ report' = GenerateReport(0, TRUE, PkiMounts, ca_infos)
    /\ UNCHANGED <<alert_webhook, main_pc, run_pc, in_progress, job_due, cycle,
                   artifacts, latest, posts, failed, monitor_log>>
    /\ UNCHANGED <<storeVars, dispatchVars, cacheVars, adapterVars, inventory_ret, agentVars>>

\* ---------------------------------------------------------- specifications
\* --------------------------------------------------------------- adapters
Providers == {"vault", "globalsign", "digicert", "entrust"}
AdapterOps == {"issue_certificate", "revoke_certificate", "get_certificate"}

\* validity_period arguments of issue_certificate, in months.
ValidityPeriods == {-1, 0, 1}

\* Readings of datetime.utcnow(), in days.
UtcNowReadings == {100, 101}

\* Identifiers handed to revoke_certificate and get_certificate.
Identifiers == {"o1"}

\* What the remote API can answer to an issue request: an HTTP status and a
\* JSON body that carries the certificate, only an order identifier, or
\* nothing of use.  data is Vault's "data" envelope.
IssueBodies ==
    {[data |-> TRUE, id |-> "o1", certificate |-> "pem",
      serial_number |-> "s1", lease_id |-> MissingText],
     [data |-> TRUE, id |-> "o1", certificate |-> Absent,
      serial_number |-> Absent, lease_id |-> OtherText],
     [data |-> FALSE, id |-> Absent, certificate |-> Absent,
      serial_number |-> Absent, lease_id |-> MissingText]}

\* What the remote API can answer to a revoke or fetch request.  case is the
\* provider's view of the identifier; a provider answers a repeated
\* revocation with its success status or with a conflict.
LookupCases(success) ==
    {[case |-> "known", status |-> success, text |-> ""],
     [case |-> "already_revoked", status |-> success, text |-> ""],
     [case |-> "already_revoked", status |-> 409,
      text |-> "certificate already revoked"],
     [case |-> "not_found", status |-> 404, text |-> "not found"],
     [case |-> "known", status |-> 500, text |-> "internal error"]}

NoResponse == [status |-> 0, text |-> ""]
NoCall == [op |-> "none"]

\* An exception leaving an adapter; message holds the parts of its text.
Raised(type, message) == [kind |-> "raise", type |-> type, message |-> message]

\* The name an adapter's error message starts with.
TitleOf(provider) ==
    CASE provider = "globalsign" -> "GlobalSign"
      [] provider = "digicert"   -> "DigiCert"
      [] provider = "entrust"    -> "Entrust"
      [] OTHER                   -> "Vault"

\* The verb in a VaultError message.
VerbOf(op) ==
    CASE op = "issue_certificate"  -> "issue"
      [] op = "revoke_certificate" -> "revoke"
      [] OTHER                     -> "get"

\* ca_providers.py 116, 178, 224, 315, 377, 421, 504, 565, 609 and
\* vault_client.py 111, 171, 214: the one status an adapter takes as success.
ExpectedStatus(provider, op) ==
    CASE op = "issue_certificate"  -> IF provider = "vault" THEN 200 ELSE 201
      [] op = "revoke_certificate" -> IF provider = "digicert" THEN 204 ELSE 200
      [] OTHER                     -> 200

\* The answers an issue request can get: this adapter's success status, or
\* a rejection, with any of the bodies.
IssueResponses(provider) ==
    {[status |-> st, body |-> b, text |-> "rejected"] :
        st \in {ExpectedStatus(provider, "issue_certificate"), 400},
        b \in IssueBodies}

\* The answers a revoke or fetch request can get.
LookupResponses(provider, op) == LookupCases(ExpectedStatus(provider, op))

\* The remote API does not forget a revocation: once it holds an identifier
\* as revoked it answers about it as revoked, or fails.
RemoteAnswers(provider, op, identifier) ==
    {response \in LookupResponses(provider, op) :
        <<provider, identifier>> \in revoked_remotely
            => response.case = "already_revoked" \/ response.status = 500}

\* ca_providers.py 116-118 (and the same lines of every commercial call),
\* vault_client.py 111-113, 171-173, 212-216: the exception raised for an
\* answer that is not the expected status.  Vault's 404 on a fetch names the
\* serial number and leaves the provider's text out.
ErrorOf(provider, op, identifier, response) ==
    IF provider # "vault"
    THEN Raised("Exception", <<TitleOf(provider), " API error: ", response.text>>)
    ELSE IF op = "get_certificate" /\ response.status = 404
         THEN Raised("VaultError", <<"Certificate not found: ", identifier>>)
         ELSE Raised("VaultError",
                     <<"Failed to ", VerbOf(op), " certificate: ", response.text>>)

\* ca_providers.py 122-132, 321-331, 510-519 and vault_client.py 115-133:
\* the certificate_info dict built from a successful issue answer; Absent
\* is a key the dict does not have.  GlobalSign reads the clock twice.
IssuedInfo(provider, validity_period, body, t1, t2) ==
    CASE provider = "vault" ->
            IF ~body.data
            THEN Raised("VaultError", <<"Invalid response format from Vault">>)
            ELSE [kind           |-> "return",
                  certificate_id |-> Absent,
                  serial_number  |-> Get(body.serial_number),
                  certificate    |-> Get(body.certificate),
                  status         |-> Absent,
                  issued_at      |-> IF body.lease_id = MissingText
                                     THEN NoneText ELSE body.lease_id,
                  expires_at     |-> MissingText]
      [] provider = "globalsign" ->
            [kind           |-> "return",
             certificate_id |-> Get(body.id),
             serial_number  |-> Absent,
             certificate    |-> Get(body.certificate),
             status         |-> "issued",
             issued_at      |-> IsoText(t1),
             expires_at     |-> IsoText(t2 + validity_period * DaysPerMonth)]
      [] OTHER ->
            [kind           |-> "return",
             certificate_id |-> Get(body.id),
             serial_number  |-> Absent,
             certificate    |-> Get(body.certificate),
             status         |-> "pending",
             issued_at      |-> IsoText(t1),
             expires_at     |-> MissingText]

\* ca_providers.py 189-194, 386-391, 574-579 and vault_client.py 182-186:
\* the dict returned for a successful revocation.
RevokedInfo(provider, identifier, t1) ==
    IF provider = "vault"
    THEN [kind |-> "return", serial_number |-> identifier, status |-> "revoked"]
    ELSE [kind |-> "return", certificate_id |-> identifier,
          status |-> "revoked", revoked_at |-> IsoText(t1)]

\* ca_providers.py 230-237, 427-434, 615-622 and vault_client.py 220-224:
\* the dict returned for a successful fetch.  Vault's is always active; the
\* commercial adapters pass the provider's status on.
FetchedInfo(provider, identifier, response) ==
    IF provider = "vault"
    THEN [kind |-> "return", serial_number |-> identifier, status |-> "active"]
    ELSE [kind |-> "return", certificate_id |-> identifier,
          status |-> IF response.case = "already_revoked"
                     THEN "revoked" ELSE "issued"]

\* The session attribute used while it is None or closed: the attribute
\* access or the request raises before anything is sent.
SessionError(session) ==
    IF session = None
    THEN Raised("AttributeError", <<"'NoneType' object has no attribute">>)
    ELSE Raised("RuntimeError", <<"Session is closed">>)

\* ca_providers.py 142-144 (and the same clause of every adapter call),
\* vault_client.py 143-145: the except clause logs and re-raises.
ExceptLogsAndRaises(outcome) == outcome

AdapterInit ==
    /\ sessions = [provider \in Providers |-> None]
    /\ adapter_ret = NoCall
    /\ revoked_remotely = {}
    /\ services = [vault_client |-> FALSE, ca_providers |-> FALSE,
                   startup |-> "none", shutdown |-> FALSE]
    /\ inventory_ret = NoCall

\* What every adapter call does around its request.
AdapterCall(provider, op, identifier, response, info) ==
    /\ adapter_ret' =
          [provider   |-> provider,
           op         |-> op,
           identifier |-> identifier,
           response   |-> IF sessions[provider] = "open"
                          THEN response ELSE NoResponse,
           outcome    |-> ExceptLogsAndRaises(
                IF sessions[provider] # "open"
                THEN SessionError(sessions[provider])
                ELSE IF response.status # ExpectedStatus(provider, op)
                THEN ErrorOf(provider, op, identifier, response)
                ELSE info)]
    /\ UNCHANGED <<sessions, services>>
    /\ UNCHANGED <<storeVars, dispatchVars, cacheVars, monitorVars, inventory_ret, agentVars>>

\* ca_providers.py 34-38 and vault_client.py 36-57: connect.  The session is
\* assigned before Vault's authentication check, which raises on failure.
provider_connect(provider, authenticated) ==
    /\ sessions' = [sessions EXCEPT ![provider] = "open"]
    /\ adapter_ret' =
          [provider   |-> provider,
           op         |-> "connect",
           identifier |-> None,
           response   |-> NoResponse,
           outcome    |-> IF provider = "vault" /\ ~authenticated
                          THEN Raised("VaultError",
                                      <<"Failed to authenticate with Vault">>)
                          ELSE [kind |-> "return"]]
    /\ UNCHANGED <<revoked_remotely, services>>
    /\ UNCHANGED <<storeVars, dispatchVars, cacheVars, monitorVars, inventory_ret, agentVars>>

\* ca_providers.py 40-43 and vault_client.py 59-62: disconnect closes the
\* session, if there is one, and keeps the attribute.
provider_disconnect(provider) ==
    /\ sessions' = [sessions EXCEPT ![provider] =
                        IF @ = None THEN None ELSE "closed"]
    /\ adapter_ret' =
          [provider   |-> provider,
           op         |-> "disconnect",
           identifier |-> None,
           response   |-> NoResponse,
           outcome    |-> [kind |-> "return"]]
    /\ UNCHANGED <<revoked_remotely, services>>
    /\ UNCHANGED <<storeVars, dispatchVars, cacheVars, monitorVars, inventory_ret, agentVars>>

\* ca_providers.py 70-144, 263-343, 459-531 and vault_client.py 72-145.
issue_certificate(provider, validity_period, response, t1, t2) ==
    /\ AdapterCall(provider, "issue_certificate", None, response,
                   IssuedInfo(provider, validity_period, response.body, t1, t2))
    /\ UNCHANGED revoked_remotely

\* ca_providers.py 146-198, 345-395, 533-583 and vault_client.py 147-190.
\* The remote API answers the success status once it holds the certificate
\* as revoked.
revoke_certificate(provider, identifier, response, t1) ==
    /\ AdapterCall(provider, "revoke_certificate", identifier, response,
                   RevokedInfo(provider, identifier, t1))
    /\ revoked_remotely' =
          IF /\ sessions[provider] = "open"
             /\ response.status = ExpectedStatus(provider, "revoke_certificate")
          THEN revoked_remotely \cup {<<provider, identifier>>}
          ELSE revoked_remotely

\* ca_providers.py 200-241, 397-438, 585-626 and vault_client.py 192-228.
get_certificate(provider, identifier, response) ==
    /\ AdapterCall(provider, "get_certificate", identifier, response,
                   FetchedInfo(provider, identifier, response))
    /\ UNCHANGED revoked_remotely

\* The adapter objects main.py has created.
Created(provider) ==
    IF provider = "vault" THEN services.vault_client ELSE services.ca_providers

\* main.py 65-113: initialize_services, run once by the startup event.  The
\* adapters are constructed and never connected.  A failing connect of the
\* database or of the cache is logged and re-raised before the commercial
\* adapters exist; otherwise MCPServer is called with keyword arguments that
\* mcp_protocol.py 63 does not take, which raises TypeError.
initialize_services(database_ok) ==
    /\ services.startup = "none"
    /\ sessions' = [provider \in Providers |-> None]
    /\ IF ~database_ok
       THEN /\ services' = [services EXCEPT !.vault_client = TRUE,
                                            !.startup = "PostgresError"]
            /\ UNCHANGED cacheVars
       ELSE /\ CacheConnect
            /\ services' = [services EXCEPT
                                !.vault_client = TRUE,
                                !.ca_providers = backend_up,
                                !.startup = IF backend_up THEN "TypeError"
                                            ELSE "ConnectionError"]
    /\ UNCHANGED <<adapter_ret, revoked_remotely>>
    /\ UNCHANGED <<storeVars, dispatchVars, monitorVars, inventory_ret, agentVars>>

\* main.py 116-129: shutdown_services closes the database pool and the Redis
\* client, whose attributes stay set, and nothing else.
shutdown_services ==
    /\ services.startup # "none"
    /\ ~services.shutdown
    /\ services' = [services EXCEPT !.shutdown = TRUE]
    /\ UNCHANGED <<sessions, adapter_ret, revoked_remotely>>
    /\ UNCHANGED <<storeVars, dispatchVars, cacheVars, monitorVars, inventory_ret, agentVars>>

\* ----------------------------------------------------------------- agents
\* Names of the tools handed to the registry, and their categories.
RegistryNames == {"scan", "issue"}
Categories == {"general", "pki"}

\* Longest list the category index is let grow to.
MaxCategoryLen == 3

\* Python dicts: d without key k, and d with d[k] = v.
Popped(d, k) == [x \in DOMAIN d \ {k} |-> d[x]]
Assigned(d, k, v) == [x \in DOMAIN d \cup {k} |-> IF x = k THEN v ELSE d[x]]
EmptyDict == [x \in {} |-> None]

\* list.remove(x): the list without the first x.
RECURSIVE Removed(_, _)
Removed(list, x) ==
    IF list = <<>> THEN <<>>
    ELSE IF Head(list) = x THEN Tail(list)
    ELSE <<Head(list)>> \o Removed(Tail(list), x)

\* The entries of a list.
Entries(list) == {list[k] : k \in DOMAIN list}

\* tool_registry.py 31-35
RegistryInit ==
    /\ registry = [tools |-> EmptyDict, metadata |-> EmptyDict,
                   categories |-> EmptyDict]
    /\ registry_ret = "none"

\* tool_registry.py 37-65: register_tool.  The two dicts are assigned by
\* name and the name is appended to its category's list.
register_tool_in(tool, category) ==
    /\ category \in DOMAIN registry.categories
          => Len(registry.categories[category]) < MaxCategoryLen
    /\ IF ~tool.is_tool
       THEN /\ registry_ret' = "ValueError"
            /\ UNCHANGED registry
       ELSE /\ registry' =
                  [tools      |-> Assigned(registry.tools, tool.name, tool),
                   metadata   |-> Assigned(registry.metadata, tool.name,
                                     [name |-> tool.name, category |-> category]),
                   categories |-> Assigned(registry.categories, category,
                                     Append(IF category \in DOMAIN registry.categories
                                            THEN registry.categories[category]
                                            ELSE <<>>,
                                            tool.name))]
            /\ registry_ret' = "None"
    /\ UNCHANGED <<agent_memory, memory_ret, stored_since_clear>>
    /\ UNCHANGED <<storeVars, dispatchVars, cacheVars, monitorVars, adapterVars,
                   inventory_ret>>

\* tool_registry.py 102-116: unregister_tool.  Both dicts are popped, then
\* the name is removed once from the list of the category its metadata
\* names; list.remove raises ValueError for a name the list does not hold.
unregister_tool(name) ==
    /\ IF name \notin DOMAIN registry.tools
       THEN /\ registry_ret' = "False"
            /\ UNCHANGED registry
       ELSE LET category == registry.metadata[name].category
                popped == [registry EXCEPT
                              !.tools = Popped(@, name),
                              !.metadata = Popped(@, name)]
            IN IF category \notin DOMAIN registry.categories
               THEN /\ registry' = popped
                    /\ registry_ret' = "True"
               ELSE IF name \notin Entries(registry.categories[category])
               THEN /\ registry' = popped
                    /\ registry_ret' = "ValueError"
               ELSE LET rest == Removed(registry.categories[category], name)
                    IN /\ registry' =
                             [popped EXCEPT !.categories =
                                 IF rest = <<>> THEN Popped(@, category)
                                 ELSE Assigned(@, category, rest)]
                       /\ registry_ret' = "True"
    /\ UNCHANGED <<agent_memory, memory_ret, stored_since_clear>>
    /\ UNCHANGED <<storeVars, dispatchVars, cacheVars, monitorVars, adapterVars,
                   inventory_ret>>

\* max_size arguments of AgentMemory, interactions stored, and the number of
\* store_interaction calls followed between two clears.
MaxSize == 2
MaxStored == 3
Interactions == {"question", "answer", "error"}

\* No AgentMemory has been built yet.
MemoryInit ==
    /\ agent_memory = [built |-> FALSE, max_size |-> 0, memory |-> <<>>]
    /\ memory_ret = "none"
    /\ stored_since_clear = <<>>

\* memory.py 14-18: the deque is bounded by max_size.
AgentMemory(max_size) ==
    /\ ~agent_memory.built
    /\ agent_memory' = [built |-> TRUE, max_size |-> max_size, memory |-> <<>>]
    /\ memory_ret' = "None"
    /\ UNCHANGED <<registry, registry_ret, stored_since_clear>>
    /\ UNCHANGED <<storeVars, dispatchVars, cacheVars, monitorVars, adapterVars,
                   inventory_ret>>

\* deque.append on a deque(maxlen=maxlen): a full deque drops its leftmost
\* item; with maxlen 0 the item is dropped at once.
DequeAppend(memory, item, maxlen) ==
    IF maxlen = 0 THEN memory
    ELSE IF Len(memory) = maxlen THEN Append(Tail(memory), item)
    ELSE Append(memory, item)

\* memory.py 20-25: store_interaction.  popleft on an empty deque raises
\* IndexError, before the append.
store_interaction(interaction) ==
    /\ agent_memory.built
    /\ Len(stored_since_clear) < MaxStored
    /\ stored_since_clear' = Append(stored_since_clear, interaction)
    /\ IF Len(agent_memory.memory) >= agent_memory.max_size
       THEN IF agent_memory.memory = <<>>
            THEN /\ memory_ret' = "IndexError"
                 /\ UNCHANGED agent_memory
            ELSE /\ agent_memory' = [agent_memory EXCEPT !.memory =
                        DequeAppend(Tail(@), interaction, agent_memory.max_size)]
                 /\ memory_ret' = "None"
       ELSE /\ agent_memory' = [agent_memory EXCEPT !.memory =
                   DequeAppend(@, interaction, agent_memory.max_size)]
            /\ memory_ret' = "None"
    /\ UNCHANGED <<registry, registry_ret>>
    /\ UNCHANGED <<storeVars, dispatchVars, cacheVars, monitorVars, adapterVars,
                   inventory_ret>>

\* memory.py 31-34: clear_memory.
clear_memory ==
    /\ agent_memory.built
    /\ agent_memory' = [agent_memory EXCEPT !.memory = <<>>]
    /\ memory_ret' = "None"
    /\ stored_since_clear' = <<>>
    /\ UNCHANGED <<registry, registry_ret>>
    /\ UNCHANGED <<storeVars, dispatchVars, cacheVars, monitorVars, adapterVars,
                   inventory_ret>>

Init ==
    /\ StoreInit /\ DispatchInit /\ CacheInit /\ MonitorInit /\ AdapterInit
    /\ RegistryInit /\ MemoryInit

\* A certificate_data dict with these three entries and no timestamps.
CertificateData(certificate_id, serial_number, status) ==
    [certificate_id |-> certificate_id,
     serial_number  |-> serial_number,
     status         |-> status,
     issued_at      |-> MissingText,
     expires_at     |-> MissingText]

Next ==
    \/ \E p \in Conns, c \in CertIds, s \in Serials \cup {None},
          st \in StoreStatusArgs :
          store_certificate(p, "vault", CertificateData(c, s, st), now + 1)
    \/ \E p \in Conns, c \in IdArgs, s \in SerialArgs, st \in UpdateStatusArgs :
          update_certificate_status(p, c, s, st)
    \/ \E p \in Conns : log_operation(p)

Spec == Init /\ [][Next]_vars

NextDispatch ==
    \/ \E name \in ToolNames, description \in Descriptions,
          parameters \in ParameterDicts :
          register_tool(name, description, parameters)
    \/ \E tool_name \in ToolNames \cup UnregisteredNames,
          parameters \in SUBSET ParamNames :
          call_tool(tool_name, parameters)

SpecDispatch == Init /\ [][NextDispatch]_vars

NextCache ==
    \/ connect
    \/ outage
    \/ \E key \in Keys : key_expires(key)
    \/ \E key \in Keys : get(key)
    \/ \E key \in Keys, value \in CacheValues, ttl \in TTLArgs : set(key, value, ttl)
    \/ \E key \in Keys : delete(key)
    \/ \E key \in Keys : exists(key)
    \/ \E key \in Keys, ttl \in TTLArgs \ {0} : expire(key, ttl)
    \/ \E key \in Keys : get_ttl(key)
    \/ \E key \in Keys : increment(key, 1)
    \/ \E key \in Keys : decrement(key, 1)
    \/ \E key \in Keys, field \in Fields, value \in CacheValues :
          set_hash(key, field, value)
    \/ \E key \in Keys, field \in Fields : get_hash(key, field)
    \/ \E key \in Keys : get_all_hash(key)
    \/ \E key \in Keys, field \in Fields : delete_hash(key, field)
    \/ \E key \in Keys, value \in CacheValues : add_to_set(key, value)
    \/ \E key \in Keys, value \in CacheValues : remove_from_set(key, value)
    \/ \E key \in Keys : get_set_members(key)
    \/ \E key \in Keys, value \in CacheValues : is_set_member(key, value)
    \/ \E key \in Keys, value \in CacheValues, left \in BOOLEAN :
          push_to_list(key, value, left)
    \/ \E key \in Keys, left \in BOOLEAN : pop_from_list(key, left)
    \/ \E key \in Keys : get_list_length(key)
    \/ \E key \in Keys : get_list_range(key)
    \/ \E pattern \in Patterns : clear_pattern(pattern)
    \/ get_stats

SpecCache == Init /\ [][NextCache]_vars

NextMonitor ==
    \/ \E webhook \in WebhookSettings : CertificateMonitor(webhook)
    \/ startup_run
    \/ tick
    \/ run_pending
    \/ \E health \in HealthAnswers, mounts_answered \in BOOLEAN,
          cas_answered \in SUBSET MountNames :
          generate_report(health, mounts_answered, cas_answered)
    \/ \E written \in SaveOutcomes : save_report(written)
    \/ \E delivered \in BOOLEAN : send_alerts(delivered)
    \/ request_unanswered

SpecMonitor == Init /\ [][NextMonitor]_vars

\* The steps of main's one thread: the interpreter takes the next one
\* whenever it can be taken.
ThreadStep ==
    \/ startup_run
    \/ run_pending
    \/ \E health \in HealthAnswers, mounts_answered \in BOOLEAN,
          cas_answered \in SUBSET MountNames :
          generate_report(health, mounts_answered, cas_answered)
    \/ \E written \in SaveOutcomes : save_report(written)
    \/ \E delivered \in BOOLEAN : send_alerts(delivered)

SpecMonitorFair == SpecMonitor /\ WF_vars(ThreadStep)

\* Days until expiry handed to the scan: both sides of both thresholds.
DaysArgs == {0, 5, 6, 7, 8, 15, 29, 30, 31, 60, 350}
NoDays == -1

\* What check_ca_expiry can hand to the scan for each mount: None, or a
\* record with one of the days.
CaInfoArgs ==
    { [mount \in MountNames |->
          IF days[mount] = NoDays THEN NoCaInfo
          ELSE [mount |-> mount, days_until_expiry |-> days[mount]]]
      : days \in [MountNames -> DaysArgs \cup {NoDays}] }

NextAdapters ==
    \/ \E provider \in {"vault", "globalsign"}, authenticated \in BOOLEAN :
          provider_connect(provider, authenticated)
    \/ \E provider \in {"vault"} : provider_disconnect(provider)
    \/ \E provider \in Providers, validity_period \in ValidityPeriods,
          t1, t2 \in UtcNowReadings :
       \E response \in IssueResponses(provider) :
          t1 <= t2 /\ issue_certificate(provider, validity_period, response, t1, t2)
    \/ \E provider \in Providers, identifier \in Identifiers,
          t1 \in UtcNowReadings :
       \E response \in RemoteAnswers(provider, "revoke_certificate", identifier) :
          revoke_certificate(provider, identifier, response, t1)
    \/ \E provider \in Providers, identifier \in Identifiers :
       \E response \in RemoteAnswers(provider, "get_certificate", identifier) :
          get_certificate(provider, identifier, response)

SpecAdapters == Init /\ [][NextAdapters]_vars

\* The certificate_data dicts the store is handed: what the adapters'
\* issue_certificate returns for an answer that carries the certificate
\* ("Certificate data from CA", database.py 146), and dicts a caller builds
\* itself, with a status of its own or none.
IssuedData(provider) ==
    {info \in {IssuedInfo(provider, validity_period, response.body, 100, 100) :
                  validity_period \in ValidityPeriods,
                  response \in IssueResponses(provider)} :
        info.kind = "return" /\ info.certificate # None}

CallerData ==
    {CertificateData(c, None, st) :
        c \in {"c1"}, st \in {None, "unknown"}}

\* The store on one connection, fed with the adapters' results and with
\* status values of the caller's choosing; two statements may run at the
\* same instant of the database clock.
NextStoreInputs ==
    \/ \E provider \in {"vault", "globalsign"}, at \in {now, now + 1} :
       \E certificate_data \in IssuedData(provider) :
          /\ Len(certificates) < MaxRows
          /\ store_certificate(1, provider, certificate_data, at)
    \/ \E certificate_data \in CallerData, at \in {now, now + 1} :
          /\ Len(certificates) < MaxRows
          /\ store_certificate(1, "vault", certificate_data, at)
    \/ \E c \in {"o1"}, st \in {"unknown"} :
          update_certificate_status(1, c, None, st)
    \/ log_operation(1)

SpecStoreInputs == Init /\ [][NextStoreInputs]_vars

\* database.py 301-311: the rows the WHERE clause keeps; a filter that is
\* None or empty is left out of the clause.
InventoryMatches(ca_provider, status) ==
    {i \in DOMAIN certificates :
        /\ (Truthy(ca_provider) => certificates[i].ca_provider = ca_provider)
        /\ (Truthy(status) => certificates[i].status = status)}

\* database.py 323: ORDER BY created_at DESC.  Rows created at the same
\* instant may come in either order: the statement names no second key.
OrderedByCreatedAt(order) ==
    \A a, b \in DOMAIN order :
        a < b => certificates[order[a]].created_at >= certificates[order[b]].created_at

\* database.py 313-327: every answer the SELECT may give: the matching rows
\* in an order the ORDER BY allows, cut by OFFSET and LIMIT.
InventoryAnswers(ca_provider, status, limit, offset) ==
    {SubSeq(order, offset + 1,
            IF offset + limit < Len(order) THEN offset + limit ELSE Len(order)) :
        order \in {o \in Orderings(InventoryMatches(ca_provider, status)) :
                      OrderedByCreatedAt(o)}}

\* database.py 277-350: get_certificate_inventory; the table is only read.
get_certificate_inventory(ca_provider, status, limit, offset) ==
    /\ \E answer \in InventoryAnswers(ca_provider, status, limit, offset) :
          inventory_ret' = [op          |-> "get_certificate_inventory",
                            ca_provider |-> ca_provider,
                            status      |-> status,
                            limit       |-> limit,
                            offset      |-> offset,
                            rows        |-> answer]
    /\ UNCHANGED <<storeVars, dispatchVars, cacheVars, monitorVars, adapterVars,
                   agentVars>>

\* The store on one connection while its inventory is read: certificates
\* of two providers, with and without a status of their own, stored at the
\* same or at a later instant of the database clock.
NextInventory ==
    \/ \E provider \in {"vault", "globalsign"}, st \in {Absent, "pending"},
          at \in {now, now + 1} :
          /\ Len(certificates) < MaxRows
          /\ store_certificate(1, provider, CertificateData(Absent, None, st), at)
    \/ log_operation(1)
    \/ \E filter \in {<<None, None>>, <<"vault", None>>, <<"vault", "pending">>},
          page \in {<<100, 0>>, <<1, 0>>, <<1, 1>>} :
          get_certificate_inventory(filter[1], filter[2], page[1], page[2])

SpecInventory == Init /\ [][NextInventory]_vars

NextScan == \E ca_infos \in CaInfoArgs : scan_mounts(ca_infos)

\* Readings of datetime.utcnow() by generate_report, in days since
\* 2025-01-01.
MaxDay == 30

\* The day, counted the same way, of an expires_at text.
DayOf(expires_at) ==
    IF expires_at = "2025-12-31T23:59:59Z" THEN 364 ELSE NoDays

\* cert-expiry-monitor.py 115-169 with 83-102: generate_report run on day
\* today against a healthy Vault that lists its mounts.
generate_report_on(today, cas_answered) ==
    /\ report' = GenerateReport(today, TRUE, PkiMounts,
                      [mount \in MountNames |->
                          check_ca_expiry(mount, mount \in cas_answered)])
    /\ UNCHANGED <<alert_webhook, main_pc, run_pc, in_progress, job_due, cycle,
                   artifacts, latest, posts, failed, monitor_log>>
    /\ UNCHANGED <<storeVars, dispatchVars, cacheVars, adapterVars, inventory_ret, agentVars>>

NextExpiry ==
    \E today \in 0 .. MaxDay, cas_answered \in SUBSET MountNames :
        generate_report_on(today, cas_answered)

SpecExpiry == Init /\ [][NextExpiry]_vars

NextRegistry ==
    \/ \E name \in RegistryNames, is_tool \in BOOLEAN, category \in Categories :
          register_tool_in([name |-> name, is_tool |-> is_tool], category)
    \/ \E name \in RegistryNames : unregister_tool(name)

SpecRegistry == Init /\ [][NextRegistry]_vars

NextMemory ==
    \/ \E max_size \in 0 .. MaxSize : AgentMemory(max_size)
    \/ \E interaction \in Interactions : store_interaction(interaction)
    \/ clear_memory

SpecMemory == Init /\ [][NextMemory]_vars

SpecScan == Init /\ [][NextScan]_vars

\* ------------------------------------------------------------- properties
AllIdle == \A p \in Conns : pc[p] = "idle"

\* The step in which connection p's update_certificate_status runs its UPDATE.
UpdateStep(p) ==
    /\ pc[p] = "idle"
    /\ pc'[p] = "log"
    /\ frame'[p].op = "update_certificate_status"

\* The step in which connection p's call writes its Operation row and returns.
ReturnStep(p) == pc[p] = "log" /\ pc'[p] = "idle"

\* C1: every certificate row has status = 'revoked' if and only if its
\* revoked_at is set.
RevokedIffRevokedAt ==
    \A i \in DOMAIN certificates :
        (certificates[i].status = "revoked") <=> (certificates[i].revoked_at # NoTime)

\* C2: update_certificate_status(status = 'revoked') on rows that are already
\* revoked returns success, leaves their revoked_at as it was and appends no
\* further Operation row.
RevokeIsIdempotent ==
    [][\A p \in Conns :
          /\ (UpdateStep(p) /\ frame'[p].status = "revoked"
                /\ frame'[p].prior = {"revoked"})
             => \A i \in frame'[p].changed :
                   certificates'[i].revoked_at = certificates[i].revoked_at
          /\ (ReturnStep(p) /\ frame[p].op = "update_certificate_status"
                /\ frame[p].status = "revoked" /\ frame[p].prior = {"revoked"})
             => /\ ret' = "True"
                /\ certificate_operations' = certificate_operations]_vars

\* C3: a stored status changes only along pending->issued, issued->active,
\* active->revoked, active->expired, active->suspended, suspended->active;
\* any other requested transition leaves the status as it was.
AllowedEdges ==
    { <<"pending", "issued">>, <<"issued", "active">>, <<"active", "revoked">>,
      <<"active", "expired">>, <<"active", "suspended">>, <<"suspended", "active">> }

OnlyAllowedTransitions ==
    [][\A i \in DOMAIN certificates :
          \/ certificates'[i].status = certificates[i].status
          \/ <<certificates[i].status, certificates'[i].status>> \in AllowedEdges]_vars

\* C4 as stated: every successful store mutation gets exactly one Operation
\* row, carrying the certificate_id of the certificate it mutated.
ExactlyOneOperationPerMutation ==
    [][\A p \in Conns :
          ReturnStep(p) =>
             /\ Len(certificate_operations') = Len(certificate_operations) + 1
             /\ \A i \in frame[p].changed :
                   certificate_operations'[Len(certificate_operations')].certificate_id
                      = certificates[i].certificate_id]_vars

\* C4 amended: a successful store mutation appends at most one Operation row:
\* none when the audit INSERT failed (and the failure was logged), otherwise
\* exactly one, which leaves the earlier rows in place and carries the
\* certificate_id of a row the call changed.
AtMostOneOperationPerMutation ==
    [][\A p \in Conns :
          ReturnStep(p) =>
             /\ ret' \in {"id", "True"}
             /\ IF log_errors' # log_errors
                THEN certificate_operations' = certificate_operations
                ELSE /\ Len(certificate_operations') = Len(certificate_operations) + 1
                     /\ SubSeq(certificate_operations', 1, Len(certificate_operations))
                           = certificate_operations
                     /\ \E i \in frame[p].changed :
                           certificate_operations'[Len(certificate_operations')].certificate_id
                              = certificates[i].certificate_id]_vars

\* Both outcomes of the audit write have happened to finished mutations: one
\* Operation row was written for an update and one audit INSERT failed.
OperationLoggedAndLost ==
    /\ AllIdle
    /\ log_errors > 0
    /\ ret = "True"
    /\ \E k \in DOMAIN certificate_operations :
          certificate_operations[k].operation_type = "status_update"

\* C5: the certificate write and its Operation row are one atomic unit: in
\* every state there are as many Operation rows as committed certificate
\* statements (the clock counts those).
AuditIsAtomic == Len(certificate_operations) = now

\* C6: the order of a certificate's status_update rows is the order in which
\* its status changed, so once all calls have returned (none having lost its
\* audit row, none having touched several rows through a shared serial
\* number) the most recent status_update row of a certificate records its
\* current status.
StatusUpdatesOf(c) ==
    SelectSeq(certificate_operations,
              LAMBDA o : o.operation_type = "status_update" /\ o.certificate_id = c)

AuditOrderMatchesStatus ==
    (/\ AllIdle
     /\ log_errors = 0
     /\ \A i, j \in DOMAIN certificates :
           (i # j /\ certificates[i].serial_number # None)
              => certificates[i].serial_number # certificates[j].serial_number)
    => \A i \in DOMAIN certificates :
          LET rows == StatusUpdatesOf(certificates[i].certificate_id) IN
          (certificates[i].certificate_id # None /\ rows # <<>>)
             => rows[Len(rows)].status = certificates[i].status

\* C7: update_certificate_status with neither certificate_id nor
\* serial_number fails with the validation error: in every state it raises
\* ValueError before any statement, and the step in which a call ends in
\* ValueError changes no certificate row, appends no Operation row and
\* leaves no call on its way to _log_operation.
NeitherKeyIsRejected ==
    /\ [](\A c \in {None, ""}, s \in {None, ""}, st \in UpdateStatusArgs :
            LET u == UpdateStatement(c, s, st) IN
            /\ u.outcome = "ValueError"
            /\ u.matched = {}
            /\ u.rows = certificates)
    /\ [][(ret # "ValueError" /\ ret' = "ValueError") =>
             /\ certificates' = certificates
             /\ certificate_operations' = certificate_operations
             /\ pc' = pc]_vars

\* A call without a lookup key was refused while the store held rows.
NeitherKeyWasRejected == ret = "ValueError" /\ Len(certificates) > 0

\* C8: update_certificate_status with both certificate_id and serial_number
\* fails with a conflict/validation error, changes no certificate row and
\* appends no Operation row.
BothKeysAreRejected ==
    [][\A p \in Conns, c \in CertIds, s \in Serials, st \in UpdateStatusArgs :
          update_certificate_status(p, c, s, st) =>
             /\ ret' = "ValueError"
             /\ certificates' = certificates
             /\ certificate_operations' = certificate_operations
             /\ pc' = pc]_vars

\* text occurs in the message
Contains(message, text) == \E k \in DOMAIN message : message[k] = text

\* C9: call_tool with an unregistered name returns a failure envelope whose
\* error contains 'not found', whatever the parameters, and awaits no handler.
UnregisteredToolNotFound ==
    [][\A tool_name \in ToolNames \cup UnregisteredNames,
          parameters \in SUBSET ParamNames :
          (tool_name \notin DOMAIN tools /\ call_tool(tool_name, parameters)) =>
             /\ envelope'.success = FALSE
             /\ "error" \in DOMAIN envelope'
             /\ Contains(envelope'.error, "not found")
             /\ invoked' = None]_vars

\* A call named a tool that is not registered, while another tool is, and
\* got the not-found envelope.
UnregisteredToolWasCalled ==
    /\ DOMAIN tools # {}
    /\ "error" \in DOMAIN envelope
    /\ \E tool_name \in (ToolNames \cup UnregisteredNames) \ DOMAIN tools :
          envelope.error = NotFoundMessage(tool_name)
    /\ invoked = None

\* Names of the declared parameters marked required: True that the input lacks.
DeclaredRequiredMissing(declared, parameters) ==
    { declared[k].name : k \in { j \in DOMAIN declared :
          declared[j].required = "True" /\ declared[j].name \notin parameters } }

\* C10: call_tool on a registered tool whose input lacks declared-required
\* parameters returns a failure envelope whose error names every one of them,
\* and the handler is not awaited.
MissingRequiredAllNamed ==
    [][\A tool_name \in ToolNames, parameters \in SUBSET ParamNames :
          (/\ tool_name \in DOMAIN tools
           /\ DeclaredRequiredMissing(tools[tool_name].parameters, parameters) # {}
           /\ call_tool(tool_name, parameters)) =>
             /\ envelope'.success = FALSE
             /\ "error" \in DOMAIN envelope'
             /\ \A name \in DeclaredRequiredMissing(tools[tool_name].parameters, parameters) :
                   Contains(envelope'.error, name)
             /\ invoked' = None]_vars

\* A call that lacked two declared-required parameters was refused with both
\* named.
TwoMissingWereNamed ==
    /\ "error" \in DOMAIN envelope
    /\ \E tool_name \in DOMAIN tools :
          /\ DeclaredRequiredMissing(tools[tool_name].parameters, {}) = ParamNames
          /\ envelope.error = MissingMessage(
                MissingParams(tools[tool_name].parameters, {}))
    /\ invoked = None

\* C11: call_tool never lets a handler exception escape: whenever the awaited
\* handler raised, call_tool returned an envelope, with success false and an
\* error that carries the exception's message.
HandlerExceptionIsWrapped ==
    handler_result.kind = "raise" =>
        /\ DOMAIN envelope = {"success", "timestamp", "error"}
        /\ envelope.success = FALSE
        /\ Contains(envelope.error, handler_result.error)

\* A registered tool's handler was awaited and raised.
HandlerRaised ==
    /\ invoked \in DOMAIN tools
    /\ handler_result.kind = "raise"
    /\ envelope = to_dict(FALSE, None, FailedMessage("boom"))

\* C12: every envelope call_tool returns has one shape: it holds success and
\* timestamp, holds data when success is true and holds error when success
\* is false, whatever the handler returned.
EnvelopeShapeIsUniform ==
    envelope # NoEnvelope =>
        /\ {"success", "timestamp"} \subseteq DOMAIN envelope
        /\ envelope.success = TRUE => "data" \in DOMAIN envelope
        /\ envelope.success = FALSE => "error" \in DOMAIN envelope

\* C20: when the write of the Operation row fails, the certificate mutation
\* stays applied and the call reports success: the step in which a call's
\* audit INSERT fails leaves every certificate row as the call wrote it,
\* and the call returns the new row id (store_certificate) or True
\* (update_certificate_status), never an exception.
FailedAuditKeepsMutation ==
    [][\A p \in Conns :
          (ReturnStep(p) /\ log_errors' = log_errors + 1) =>
             /\ certificates' = certificates
             /\ frame[p].changed \subseteq DOMAIN certificates'
             /\ ret' = IF frame[p].op = "store_certificate" THEN "id" ELSE "True"
             /\ ret' # "Exception"]_vars

\* A store and then a revocation both lost their audit row: the row is there,
\* revoked, the last call returned True and no Operation row exists.
BothAuditWritesFailed ==
    /\ AllIdle
    /\ log_errors = 2
    /\ certificate_operations = <<>>
    /\ ret = "True"
    /\ \E i \in DOMAIN certificates :
          certificates[i].status = "revoked" /\ certificates[i].revoked_at # NoTime

\* The value the claim names for each cache operation when it cannot reach
\* the backend.
MissValue(op) ==
    IF op \in {"get", "get_ttl", "get_hash", "pop_from_list"} THEN PyNone
    ELSE IF op \in {"increment", "decrement", "get_list_length", "clear_pattern"}
    THEN PyInt(0)
    ELSE IF op \in {"get_set_members", "get_list_range"} THEN PyList(<<>>)
    ELSE IF op \in {"get_all_hash", "get_stats"} THEN PyDict(<<>>)
    ELSE PyBool(FALSE)

\* C13: every cache operation fails soft: a call made while the backend is
\* down, or on a cache that was never connected, does not raise and returns
\* its miss value (None, False, 0, empty list or empty dict); a get then
\* returns None as for a missing key.
CacheFailsSoft ==
    (/\ cache_ret.op \notin {"none", "connect"}
     /\ cache_ret.cause \in {"AttributeError", "ConnectionError"})
    => /\ cache_ret.failed
       /\ cache_ret.value.py # "raise"
       /\ cache_ret.value = MissValue(cache_ret.op)
       /\ cache_ret.value \in {PyNone, PyBool(FALSE), PyInt(0), PyList(<<>>),
                               PyDict(<<>>)}

\* A get of a key the backend holds was made during an outage and returned
\* None.
GetDuringOutage ==
    /\ redis # None
    /\ ~backend_up
    /\ \E key \in Keys : db[make_key(key)].type = "string"
    /\ cache_ret.op = "get"
    /\ cache_ret.cause = "ConnectionError"
    /\ cache_ret.value = PyNone

\* Number of scanned CAs whose days until expiry satisfy Within.
CountOf(infos, Within(_)) ==
    Cardinality({k \in DOMAIN infos : Within(infos[k].days_until_expiry)})

\* The report's alerts for the CA of the k-th entry.
AlertsFor(rep, k) ==
    {j \in DOMAIN rep.alerts : rep.alerts[j].mount = rep.ca_certificates[k].mount}

\* C14: the scan classifies every CA by its days until expiry d: d <= 7 is
\* counted critical and gets a critical alert, 7 < d <= 30 is counted warning
\* and gets a warning alert, d > 30 is counted healthy and gets no alert.
ClassifiedByThresholds ==
    report # NoReport =>
       LET infos == report.ca_certificates
           IsCritical(d) == d <= 7
           IsWarning(d) == 7 < d /\ d <= 30
           IsHealthy(d) == d > 30
       IN /\ report.statistics.critical_cas = CountOf(infos, IsCritical)
          /\ report.statistics.warning_cas = CountOf(infos, IsWarning)
          /\ report.statistics.healthy_cas = CountOf(infos, IsHealthy)
          /\ \A k \in DOMAIN infos :
                LET d == infos[k].days_until_expiry IN
                /\ IsCritical(d) =>
                      /\ Cardinality(AlertsFor(report, k)) = 1
                      /\ \A j \in AlertsFor(report, k) :
                            /\ report.alerts[j].level = "critical"
                            /\ report.alerts[j].days_until_expiry = d
                /\ IsWarning(d) =>
                      /\ Cardinality(AlertsFor(report, k)) = 1
                      /\ \A j \in AlertsFor(report, k) :
                            /\ report.alerts[j].level = "warning"
                            /\ report.alerts[j].days_until_expiry = d
                /\ IsHealthy(d) => AlertsFor(report, k) = {}
          /\ Len(report.alerts) = CountOf(infos, IsCritical) + CountOf(infos, IsWarning)

\* A scan met a CA with 7 days left and one with 8: one critical, one warning.
BoundaryDaysScanned ==
    /\ report # NoReport
    /\ {report.ca_certificates[k].days_until_expiry :
           k \in DOMAIN report.ca_certificates} = {7, 8}
    /\ report.statistics.critical_cas = 1
    /\ report.statistics.warning_cas = 1
    /\ Len(report.alerts) = 2

\* C15: a provider connectivity failure in a cycle short-circuits the scan:
\* the cycle's report then holds exactly one critical provider-unreachable
\* alert, no per-mount entry and zero per-mount counts; and no report covers
\* only some of the mounts.
ConnectivityFailureShortCircuits ==
    report # NoReport =>
       /\ failed \cap {"health", "unhealthy", "mounts", "ca"} # {} =>
             /\ report.alerts = <<VaultAlert>>
             /\ report.ca_certificates = <<>>
             /\ report.statistics = NewReport(0, FALSE).statistics
       /\ Len(report.ca_certificates) \in {0, Len(PkiMounts)}

\* C16: at most one run_check is in progress at any time, the run at startup
\* included: a run is entered only from the one thread of main, while no
\* run is in progress.
AtMostOneRunInProgress ==
    /\ in_progress \in {0, 1}
    /\ in_progress = 1 <=> main_pc = "run"
    /\ in_progress = 1 <=> run_pc # "idle"

\* The hourly job fell due while the run at startup was still in progress.
JobDueDuringStartupRun ==
    /\ job_due
    /\ in_progress = 1
    /\ cycle = 1
    /\ run_pc = "save"

\* C17: run_check never propagates an exception: main is never left through
\* an exception, every failure of a cycle (a request of report generation,
\* the report files, the webhook POST) has its error record in the log, the
\* cycle ends with main back in its loop, and a due job then starts the next
\* run.
RunCheckNeverPropagates ==
    /\ [](/\ main_pc # "crashed"
          /\ "health" \in failed => "Vault health check failed" \in monitor_log
          /\ "mounts" \in failed => "Failed to get PKI mounts" \in monitor_log
          /\ "ca" \in failed => "Failed to check CA expiry" \in monitor_log
          /\ "save" \in failed => "Failed to save report" \in monitor_log
          /\ "post" \in failed => "Failed to send alerts" \in monitor_log
          /\ (main_pc = "loop" /\ job_due /\ cycle < MaxCycles)
                => ENABLED run_pending)
    /\ [][(in_progress = 1 /\ in_progress' = 0) => main_pc' = "loop"]_vars

\* The first cycle could store nothing, and main went on to a second run.
SecondRunAfterFailedSave ==
    /\ cycle = 2
    /\ main_pc = "run"
    /\ artifacts = {}
    /\ latest = NoReport

\* C18: in each cycle at most one webhook POST is made, and one is made
\* exactly when a webhook is configured and the cycle's report holds at least
\* one warning or critical alert; a report without alerts triggers none.
OnePostExactlyWhenAlerts ==
    /\ posts \in {0, 1}
    /\ main_pc = "loop" =>
          /\ posts = 1 <=>
                /\ alert_webhook \notin {None, ""}
                /\ \E k \in DOMAIN report.alerts :
                      report.alerts[k].level \in {"warning", "critical"}
          /\ report.alerts = <<>> => posts = 0

\* A cycle with a webhook configured ended with an alert in its report and
\* one POST made.
AlertWasPosted ==
    /\ main_pc = "loop"
    /\ alert_webhook \notin {None, ""}
    /\ report.alerts # <<>>
    /\ posts = 1

\* C19: after every cycle the report generated in it is held by a timestamped
\* file and by the latest file, so the latest file always holds the most
\* recently generated report.
LatestIsMostRecentReport ==
    main_pc = "loop" => (report \in artifacts /\ latest = report)

\* C21: Operation rows are append-only: every step of the store leaves the
\* rows certificate_operations already holds in place and unchanged, and
\* only ever adds rows after them.
OperationsAreAppendOnly ==
    [][/\ Len(certificate_operations') >= Len(certificate_operations)
       /\ SubSeq(certificate_operations', 1, Len(certificate_operations))
             = certificate_operations]_vars

\* Two audit rows written one after the other: the second write found an
\* existing row.
SecondOperationLogged == Len(certificate_operations) >= 2

\* C22: in every reachable state each certificate row's status is one of
\* pending, issued, active, revoked, expired, suspended; no other value and
\* no missing status is ever persisted.
StatusIsInEnumeration ==
    \A i \in DOMAIN certificates : certificates[i].status \in CertificateStatus

\* C23: every stored certificate row carries a certificate_id and no two
\* rows carry the same one, whichever adapter issued the certificate; a
\* store_certificate with a certificate_id already stored fails and adds
\* neither a certificate row nor an Operation row.
CertificateIdPresentAndUnique ==
    /\ [](\A i \in DOMAIN certificates :
            /\ certificates[i].certificate_id # None
            /\ \A j \in DOMAIN certificates :
                  certificates[j].certificate_id = certificates[i].certificate_id
                     => i = j)
    /\ [][(ret # "UniqueViolation" /\ ret' = "UniqueViolation") =>
             /\ certificates' = certificates
             /\ certificate_operations' = certificate_operations
             /\ pc' = pc]_vars

\* C24: every stored certificate that has both issued_at and expires_at
\* expires strictly after it was issued, whatever validity period its
\* adapter was handed.
ExpiresAfterIssued ==
    \A i \in DOMAIN certificates :
        (certificates[i].issued_at # NoTime /\ certificates[i].expires_at # NoTime)
           => certificates[i].expires_at > certificates[i].issued_at

\* C25: get_certificate_inventory returns only rows that match its filters,
\* newest first with rows of equal creation time in ascending id order, so
\* the answer to a query is fixed by the table: asking again on an unchanged
\* table gives the same sequence.
InventoryIsFilteredAndTotallyOrdered ==
    /\ [](inventory_ret.op = "get_certificate_inventory" =>
            \A a \in DOMAIN inventory_ret.rows :
               inventory_ret.rows[a] \in
                  InventoryMatches(inventory_ret.ca_provider, inventory_ret.status))
    /\ [](inventory_ret.op = "get_certificate_inventory" =>
            \A a, b \in DOMAIN inventory_ret.rows :
               a < b =>
                  LET first == certificates[inventory_ret.rows[a]]
                      second == certificates[inventory_ret.rows[b]] IN
                  \/ first.created_at > second.created_at
                  \/ /\ first.created_at = second.created_at
                     /\ inventory_ret.rows[a] < inventory_ret.rows[b])
    /\ [][(/\ inventory_ret.op = "get_certificate_inventory"
           /\ certificates' = certificates
           /\ \A f \in {"ca_provider", "status", "limit", "offset"} :
                 inventory_ret'[f] = inventory_ret[f])
          => inventory_ret'.rows = inventory_ret.rows]_vars

\* C26: list_tools returns exactly one entry per registered tool, with the
\* tool's name and description, the declared parameters as the schema's
\* properties, and a required list that names exactly the parameters whose
\* absence call_tool rejects.
ListedSchemaMatchesValidation ==
    /\ DOMAIN list_tools = DOMAIN tools
    /\ \A n \in DOMAIN tools :
          LET entry == list_tools[n]
              rejected == MissingParams(tools[n].parameters, {}) IN
          /\ entry.name = n
          /\ entry.description = tools[n].description
          /\ entry.inputSchema.properties = tools[n].parameters
          /\ {entry.inputSchema.required[i] : i \in DOMAIN entry.inputSchema.required}
                = {rejected[i] : i \in DOMAIN rejected}

\* A stored text json.loads does not read.
NotJson(text) == Loads(text).py = "raise"

\* What a read that reached the backend must have returned for the stored
\* text: the text itself, as a str, when it is not JSON.
ReturnsOpaque(returned, text) == NotJson(text) => returned = PyStr(text)

Answered(op) ==
    /\ adapter_ret.op = op
    /\ adapter_ret.response # NoResponse

\* C28: issue_certificate of every adapter returns status 'issued' exactly
\* when the provider's answer carries the certificate itself, and 'pending'
\* exactly when it carries only a tracking or order identifier.
IssueStatusFollowsAnswer ==
    (Answered("issue_certificate") /\ adapter_ret.outcome.kind = "return") =>
        LET body == adapter_ret.response.body IN
        /\ adapter_ret.outcome.status = "issued" <=> body.certificate # Absent
        /\ adapter_ret.outcome.status = "pending"
              <=> (body.certificate = Absent /\ body.id # Absent)

\* The exception names the adapter's provider, in its text or by its type.
NamesProvider(outcome, provider) ==
    \/ \E i \in DOMAIN outcome.message : outcome.message[i] = TitleOf(provider)
    \/ provider = "vault" /\ outcome.type = "VaultError"

\* C29: an answer of the remote API that is not a success, during issue,
\* revoke or fetch, makes the adapter call raise an error that carries the
\* provider's name and the raw error text; no normal result is returned.
FailedAnswerRaisesWithText ==
    \A op \in AdapterOps :
        (Answered(op) /\ adapter_ret.response.status \notin {200, 201, 204}) =>
            /\ adapter_ret.outcome.kind = "raise"
            /\ NamesProvider(adapter_ret.outcome, adapter_ret.provider)
            /\ \E i \in DOMAIN adapter_ret.outcome.message :
                  adapter_ret.outcome.message[i] = adapter_ret.response.text

\* C30: revoking a certificate the provider has already revoked is not
\* fatal: the adapter call returns, unlike the revocation of an identifier
\* the provider does not know, which raises.
AlreadyRevokedIsNotFatal ==
    Answered("revoke_certificate") =>
        /\ adapter_ret.response.case = "already_revoked"
              => adapter_ret.outcome.kind = "return"
        /\ adapter_ret.response.case = "not_found"
              => adapter_ret.outcome.kind = "raise"

\* C31: a fetch that returns, made through an adapter for an identifier that
\* the same adapter has revoked with success, reports the status revoked.
FetchAfterRevokeReportsRevoked ==
    ( /\ Answered("get_certificate")
      /\ adapter_ret.outcome.kind = "return"
      /\ <<adapter_ret.provider, adapter_ret.identifier>> \in revoked_remotely )
        => adapter_ret.outcome.status = "revoked"

\* The server's lifetime: startup, the adapters it created used by their
\* callers, the cache backend going down and up, shutdown.
NextLifecycle ==
    \/ \E database_ok \in BOOLEAN : initialize_services(database_ok)
    \/ shutdown_services
    \/ outage
    \/ \E provider \in {"vault", "globalsign"}, authenticated \in BOOLEAN :
          Created(provider) /\ provider_connect(provider, authenticated)
    \/ \E provider \in {"vault", "globalsign"} :
          Created(provider) /\ provider_disconnect(provider)
    \/ \E provider \in Providers, validity_period \in ValidityPeriods,
          t1 \in UtcNowReadings :
       \E response \in IssueResponses(provider) :
          /\ Created(provider)
          /\ issue_certificate(provider, validity_period, response, t1, t1)
    \/ \E provider \in Providers, identifier \in Identifiers,
          t1 \in UtcNowReadings :
       \E response \in RemoteAnswers(provider, "revoke_certificate", identifier) :
          Created(provider) /\ revoke_certificate(provider, identifier, response, t1)
    \/ \E provider \in Providers, identifier \in Identifiers :
       \E response \in RemoteAnswers(provider, "get_certificate", identifier) :
          Created(provider) /\ get_certificate(provider, identifier, response)

SpecLifecycle == Init /\ [][NextLifecycle]_vars

\* C32: between startup and shutdown every issue, revoke or fetch call finds
\* its adapter's session open, and after shutdown no adapter's session is
\* still open.
SessionsFollowServerLifetime ==
    /\ ( /\ ~services.shutdown
         /\ adapter_ret.op \in AdapterOps )
           => adapter_ret.response # NoResponse
    /\ services.shutdown => \A provider \in Providers : sessions[provider] # "open"

\* C33: for every CA in a report, days_until_expiry is the CA certificate's
\* expires_at minus the time of the report.
DaysUntilExpiryFollowsClock ==
    report # NoReport =>
       \A k \in DOMAIN report.ca_certificates :
          LET ca_info == report.ca_certificates[k] IN
          ca_info.days_until_expiry = DayOf(ca_info.expires_at) - report.timestamp

\* C34: every run_check that was started comes to its end.
StartedRunEnds == (in_progress = 1) ~> (in_progress = 0)

\* The lookup key of a call is held by no stored row.
NoRowMatches(certificate_id, serial_number) ==
    IF Truthy(certificate_id)
    THEN \A i \in DOMAIN certificates :
            certificates[i].certificate_id # certificate_id
    ELSE /\ Truthy(serial_number)
         /\ \A i \in DOMAIN certificates :
               certificates[i].serial_number # serial_number

\* C35: update_certificate_status with a certificate_id or serial_number that
\* no stored row holds returns false, changes no certificate row and appends
\* no Operation row, in the call or after it.
NoMatchChangesNothing ==
    /\ [](\A c \in IdArgs, s \in SerialArgs, st \in UpdateStatusArgs :
            NoRowMatches(c, s) =>
               LET u == UpdateStatement(c, s, st) IN
               /\ u.outcome = "False"
               /\ u.matched = {}
               /\ u.rows = certificates)
    /\ [][(ret # "False" /\ ret' = "False") =>
             /\ certificates' = certificates
             /\ certificate_operations' = certificate_operations
             /\ pc' = pc]_vars

\* An update found no row in a store that holds rows.
NoMatchReturnedFalse == ret = "False" /\ Len(certificates) > 0

\* C36: a get that succeeds right after a successful set(key, value), with
\* no write or expiry in between, returns value.  The state after
\* set(key, value) is told by the text the set wrote.
SetThenGetReturnsValue ==
    [][\A key \in Keys, value \in CacheValues :
          ( /\ cache_ret.op = "set"
            /\ ~cache_ret.failed
            /\ db[make_key(key)] = [type |-> "string", text |-> Serialize(value)]
            /\ get(key)
            /\ ~cache_ret'.failed )
             => cache_ret'.value = value]_vars

\* C37: when update_certificate_status returns with its audit write done,
\* every certificate row the call changed has a status_update Operation row
\* of its own, naming its certificate_id, among the rows the call appended.
EveryChangedRowIsLogged ==
    [][\A p \in Conns :
          ( /\ ReturnStep(p)
            /\ frame[p].op = "update_certificate_status"
            /\ log_errors' = log_errors )
             => LET appended == (Len(certificate_operations) + 1)
                                   .. Len(certificate_operations')
                IN /\ Cardinality(appended) >= Cardinality(frame[p].changed)
                   /\ \A i \in frame[p].changed :
                         \E k \in appended :
                            /\ certificate_operations'[k].operation_type
                                  = "status_update"
                            /\ certificate_operations'[k].certificate_id
                                  = certificates[i].certificate_id]_vars

\* C38: tools and metadata have the same keys, and for every category the
\* index lists exactly the registered tools whose metadata names that
\* category, each once; a category without a list has no such tool.
RegistryIndexesAgree ==
    LET Registered(category) ==
           {name \in DOMAIN registry.metadata :
               registry.metadata[name].category = category}
    IN /\ DOMAIN registry.tools = DOMAIN registry.metadata
       /\ \A category \in Categories :
             IF category \in DOMAIN registry.categories
             THEN LET list == registry.categories[category] IN
                  /\ Entries(list) = Registered(category)
                  /\ \A j, k \in DOMAIN list : list[j] = list[k] => j = k
             ELSE Registered(category) = {}

\* The last k items of a list.
LastItems(list, k) == SubSeq(list, Len(list) - k + 1, Len(list))

\* C39: no store_interaction call fails, and the memory holds the last
\* min(n, max_size) of the n interactions stored since the last clear, in
\* the order they arrived.
MemoryHoldsLastInteractions ==
    agent_memory.built =>
       LET n == Len(stored_since_clear)
           kept == IF n < agent_memory.max_size THEN n ELSE agent_memory.max_size
       IN /\ memory_ret # "IndexError"
          /\ agent_memory.memory = LastItems(stored_since_clear, kept)

====
